---- MODULE Spec2Model ----
(***************************************************************************)
(* A model of the FireWorks MongoDB launchpad                              *)
(* (fireworks/core/mongo_launchpad.py): the id allocator, the reset, the   *)
(* atomic checkout of a READY firework and the update / checkin of a       *)
(* firework and its launch document.                                       *)
(*                                                                         *)
(* Each MongoDB collection is a function from the key of a document to the *)
(* document.  One pymongo call (find_one_and_update, find_one_and_replace, *)
(* update_one, delete_many) is one atomic step.  Every worker is a         *)
(* process with its own in-memory objects.                                 *)
(***************************************************************************)
EXTENDS Integers, Sequences, FiniteSets, TLC

(* ------------------------------ bounds --------------------------------- *)
\* number of concurrent worker processes
NumWorkers == 2
\* largest firework id and largest launch id the allocator hands out before the model stops
MaxId == 3
MaxLaunchId == 2
\* largest number of ids one get_new_fw_id call asks for
MaxQuantity == 2

\* number of fireworks in the store when workers race for them
NumFws == 2
\* the time at which the workers run
MaxTime == 2
\* number of files the GridFS takes before the model stops
MaxFiles == 2
\* the clock of the timeout and lock specifications stops here
MaxClock == 11
\* the attempts WFLock makes to acquire a lock before it gives up
MaxTries == 2
MaxLoops == 2

Workers == 1..NumWorkers

(* ------------------------------ values --------------------------------- *)
\* the Python None where an object, a document or a return value is expected
None == [none |-> TRUE]
\* an optional number (a priority, a launch_idx, a fw_id argument): <<>> is None
NoNumber == <<>>
Some(n) == <<n>>
\* a spec without '_category', a launch without an action
NoCategory == "None"
\* a spec without '_dupefinder'
NoDupeFinder == [dupefinder |-> "None"]
NoAction == [action |-> "None"]
\* the ValueError raised by get_new_fw_id / get_new_launch_id
ValueError == [error |-> "ValueError"]
\* LockedWorkflowError, raised when the lock of a workflow cannot be acquired
LockedWorkflowError == [error |-> "LockedWorkflowError"]
\* pymongo.errors.DocumentTooLarge, raised by a write of a document over the size limit
DocumentTooLarge == [error |-> "DocumentTooLarge"]
\* an id returned by a call
Id(n) == [id |-> n]
\* no call of the worker has returned yet
NotReturned == [returned |-> FALSE]

VARIABLES
    fw_id_assigner,  \* the fw_id_assigner collection: None, or its one record
    fireworks,       \* the fireworks collection: fw_id -> document
    launches,        \* the launches collection: launch_id -> document
    workflows,       \* the workflows collection: a set of documents
    SORT_FWS,        \* fw_config.SORT_FWS, fixed when the program starts
    gridfs_fallback, \* None without GRIDFS_FALLBACK_COLLECTION, else the GridFS: its files
    WFLOCK_EXPIRATION_KILL, \* fw_config.WFLOCK_EXPIRATION_KILL, fixed when the program starts
    now,             \* datetime.utcnow()
    locals,          \* the arguments and local variables of a running rapidfire, None without one
    pc,              \* per worker: where it is in _get_a_fw_to_run / _update_fw
    args,            \* per worker: the arguments of its _get_a_fw_to_run call
    found,           \* per worker: the document find_one_and_update / find_one returned
    m_fw,            \* per worker: the Firework object it holds in memory
    ret,             \* per worker: what its last call returned (or raised), NotReturned before
    fireworks0,      \* history: the fireworks collection when the workers started
    fwGrants,        \* history: <<first id, quantity>> of every fw id range granted since the last reset
    launchGrants     \* history: every launch id granted since the last reset

store == <<fw_id_assigner, fireworks, launches, workflows>>
config == <<SORT_FWS, gridfs_fallback, WFLOCK_EXPIRATION_KILL, now, locals>>
checkoutVars == <<pc, args, found>>
history == <<fireworks0, fwGrants, launchGrants>>
vars == <<store, config, checkoutVars, m_fw, ret, history>>

\* the empty collection
EmptyColl == [k \in {} |-> None]

\* the collection c with document d stored under key k
Put(c, k, d) == [x \in DOMAIN c \cup {k} |-> IF x = k THEN d ELSE c[x]]

(* ------------------------------ documents ------------------------------- *)

\* a fireworks document as add_wf inserts it (Firework.to_db_dict): no launches yet
NewFw(state, priority, category, created_on) ==
    [state |-> state, priority |-> priority, category |-> category,
     dupefinder |-> NoDupeFinder,
     created_on |-> created_on, updated_on |-> created_on, launches |-> <<>>]

\* a launches document (the launch part of Firework.to_db_dict)
Launch(state, state_history, act) ==
    [state |-> state, state_history |-> state_history, trackers |-> <<>>, action |-> act]

\* one state_history entry
Entry(state) == [state |-> state]

\* the Firework object in memory: the fields of the fireworks document, the
\* index of the launch it addresses and that launch
FwObject(fw_id, doc, launch_idx, launch) ==
    [fw_id |-> fw_id, state |-> doc.state, priority |-> doc.priority,
     category |-> doc.category, dupefinder |-> doc.dupefinder,
     created_on |-> doc.created_on,
     updated_on |-> doc.updated_on, launch_idx |-> launch_idx, launch |-> launch]

\* Firework.to_db_dict() without 'launch': the fireworks document to store
FwDict(fw, launch_ids) ==
    [state |-> fw.state, priority |-> fw.priority, category |-> fw.category,
     dupefinder |-> fw.dupefinder,
     created_on |-> fw.created_on, updated_on |-> fw.updated_on, launches |-> launch_ids]

(* --------------------------- the id allocator --------------------------- *)

\* find_one_and_update({}, {'$inc': {'next_fw_id': quantity}})['next_fw_id']:
\* the record after the $inc, and the id read from the document as it was BEFORE it
NewFwId_INC1(rec, quantity) ==
    [assigner |-> [rec EXCEPT !.next_fw_id = @ + 1], id |-> rec.next_fw_id]

NewFwId(rec, quantity) ==
    [assigner |-> [rec EXCEPT !.next_fw_id = @ + quantity], id |-> rec.next_fw_id]

\* find_one_and_update({}, {'$inc': {'next_launch_id': 1}})['next_launch_id']
NewLaunchId(rec) ==
    [assigner |-> [rec EXCEPT !.next_launch_id = @ + 1], id |-> rec.next_launch_id]

\* get_new_fw_id: one find_one_and_update without upsert.  With no record it
\* returns None, None[...] raises, and the except clause raises ValueError.
get_new_fw_id_UPSERT(w, quantity) ==
    /\ IF fw_id_assigner = None
       THEN /\ fw_id_assigner' = [next_fw_id |-> quantity, next_launch_id |-> 0]
            /\ ret' = [ret EXCEPT ![w] = ValueError]
            /\ UNCHANGED fwGrants
       ELSE /\ fw_id_assigner.next_fw_id + quantity <= MaxId + 1
            /\ fw_id_assigner' = NewFwId(fw_id_assigner, quantity).assigner
            /\ ret' = [ret EXCEPT ![w] = Id(NewFwId(fw_id_assigner, quantity).id)]
            /\ fwGrants' = Append(fwGrants, <<NewFwId(fw_id_assigner, quantity).id, quantity>>)
    /\ UNCHANGED <<fireworks, launches, workflows, config, checkoutVars, m_fw, fireworks0, launchGrants>>

get_new_fw_id(w, quantity) ==
    /\ IF fw_id_assigner = None
       THEN /\ ret' = [ret EXCEPT ![w] = ValueError]
            /\ UNCHANGED <<fw_id_assigner, fwGrants>>
       ELSE /\ fw_id_assigner.next_fw_id + quantity <= MaxId + 1
            /\ fw_id_assigner' = NewFwId(fw_id_assigner, quantity).assigner
            /\ ret' = [ret EXCEPT ![w] = Id(NewFwId(fw_id_assigner, quantity).id)]
            /\ fwGrants' = Append(fwGrants, <<NewFwId(fw_id_assigner, quantity).id, quantity>>)
    /\ UNCHANGED <<fireworks, launches, workflows, config, checkoutVars, m_fw, fireworks0, launchGrants>>

\* get_new_launch_id: the same on next_launch_id, always by 1
get_new_launch_id(w) ==
    /\ IF fw_id_assigner = None
       THEN /\ ret' = [ret EXCEPT ![w] = ValueError]
            /\ UNCHANGED <<fw_id_assigner, launchGrants>>
       ELSE /\ fw_id_assigner.next_launch_id <= MaxLaunchId
            /\ fw_id_assigner' = NewLaunchId(fw_id_assigner).assigner
            /\ ret' = [ret EXCEPT ![w] = Id(NewLaunchId(fw_id_assigner).id)]
            /\ launchGrants' = Append(launchGrants, NewLaunchId(fw_id_assigner).id)
    /\ UNCHANGED <<fireworks, launches, workflows, config, checkoutVars, m_fw, fireworks0, fwGrants>>

\* _restart_ids: delete_many({}) and then find_one_and_replace(..., upsert=True)
\* leave exactly one record, holding the two numbers given
_restart_ids_ZERO(next_fw_id, next_launch_id) ==
    [next_fw_id |-> 0, next_launch_id |-> 0]

_restart_ids(next_fw_id, next_launch_id) ==
    [next_fw_id |-> next_fw_id, next_launch_id |-> next_launch_id]

\* _reset: the three collections are emptied and the ids restart at (1, 1)
_reset(w) ==
    /\ fireworks' = EmptyColl
    /\ launches' = EmptyColl
    /\ workflows' = {}
    /\ fw_id_assigner' = _restart_ids(1, 1)
    /\ ret' = [ret EXCEPT ![w] = None]
    /\ fwGrants' = <<>>
    /\ launchGrants' = <<>>
    /\ UNCHANGED <<config, checkoutVars, m_fw, fireworks0>>

\* add_wf: a workflow of `quantity` new fireworks.  The ids come from one
\* get_new_fw_id(quantity) call; _insert_fws and _insert_wfs store the documents.
add_wf(w, quantity) ==
    /\ IF fw_id_assigner = None
       THEN /\ ret' = [ret EXCEPT ![w] = ValueError]
            /\ UNCHANGED <<fw_id_assigner, fireworks, workflows, fwGrants>>
       ELSE /\ fw_id_assigner.next_fw_id + quantity <= MaxId + 1
            /\ LET first == NewFwId(fw_id_assigner, quantity).id
                   ids == first .. (first + quantity - 1)
               IN /\ fw_id_assigner' = NewFwId(fw_id_assigner, quantity).assigner
                  /\ fwGrants' = Append(fwGrants, <<first, quantity>>)
                  /\ fireworks' = [f \in DOMAIN fireworks \cup ids |->
                                     IF f \in ids THEN NewFw("READY", NoNumber, NoCategory, now)
                                     ELSE fireworks[f]]
                  /\ workflows' = workflows \cup {[nodes |-> ids]}
                  /\ ret' = [ret EXCEPT ![w] = Id(first)]
    /\ UNCHANGED <<launches, config, checkoutVars, m_fw, fireworks0, launchGrants>>

\* the object a worker holds when it starts a new attempt of stored firework f:
\* launch_idx is one past the launches stored, the launch is fresh and has no action
NewAttempt(f) ==
    FwObject(f, [fireworks[f] EXCEPT !.state = "RESERVED"], Some(Len(fireworks[f].launches)),
             Launch("RESERVED", <<Entry("RESERVED")>>, NoAction))

\* _replace_fw(m_fw, upsert=upsert): the launch addressed by launch_idx is
\* replaced (a new launch id is drawn when launch_idx is past the stored
\* list), then the fireworks document is replaced.  find_one_and_replace
\* without upsert writes nothing when no document matches.
_replace_fw(w, fw, upsert) ==
    LET stored == IF fw.fw_id \in DOMAIN fireworks THEN fireworks[fw.fw_id] ELSE None
        old_ids == IF stored = None THEN <<>> ELSE stored.launches
        writes_launch == fw.launch_idx # NoNumber /\ fw.launch.action = NoAction
        draws_id == writes_launch /\ fw.launch_idx[1] >= Len(old_ids)
    IN  IF draws_id /\ fw_id_assigner = None
        THEN /\ ret' = [ret EXCEPT ![w] = ValueError]
             /\ UNCHANGED <<store, config, checkoutVars, m_fw, history>>
        ELSE /\ draws_id => fw_id_assigner.next_launch_id <= MaxLaunchId
             /\ LET launch_id == IF draws_id THEN NewLaunchId(fw_id_assigner).id
                                 ELSE IF writes_launch THEN old_ids[fw.launch_idx[1] + 1]
                                 ELSE 0
                    launch_ids == IF draws_id THEN Append(old_ids, launch_id) ELSE old_ids
                IN /\ fw_id_assigner' = IF draws_id THEN NewLaunchId(fw_id_assigner).assigner
                                        ELSE fw_id_assigner
                   /\ launchGrants' = IF draws_id THEN Append(launchGrants, launch_id)
                                      ELSE launchGrants
                   /\ launches' = IF writes_launch /\ (upsert \/ launch_id \in DOMAIN launches)
                                  THEN Put(launches, launch_id, fw.launch)
                                  ELSE launches
                   /\ fireworks' = IF upsert \/ stored # None
                                   THEN Put(fireworks, fw.fw_id, FwDict(fw, launch_ids))
                                   ELSE fireworks
             /\ ret' = [ret EXCEPT ![w] = None]
             /\ UNCHANGED <<workflows, config, checkoutVars, m_fw, fireworks0, fwGrants>>

(* ------------------------------ checkout -------------------------------- *)

\* the states a stored firework is drawn from, the categories of its spec,
\* the values of fw_config.SORT_FWS
FwStates == {"READY", "RESERVED", "WAITING"}
Categories == {"a", "b"}
SortSettings == {"", "FIFO", "FILO"}
\* the priorities (None: the spec has no '_priority') and the creation times
\* of the stored fireworks
Priorities == {NoNumber, Some(1), Some(2)}
CreationTimes == {1, 2}
\* the query argument: {} or {'spec._category': c}
AnyQuery == "any"
Queries == {AnyQuery} \cup Categories

\* the arguments of _get_a_fw_to_run (launch_idx is not used by it)
Args(query, fw_id, checkout) == [query |-> query, fw_id |-> fw_id, checkout |-> checkout]

\* a document matches the caller's query
Matches(query, doc) == query = AnyQuery \/ doc.category = query

\* m_query: the caller's query with state READY, or, when fw_id is given,
\* that fw_id with state READY or RESERVED
m_query_ANYSTATE(a, fw_id, doc) ==
    IF a.fw_id # NoNumber
    THEN fw_id = a.fw_id[1] /\ doc.state \in {"READY", "RESERVED"}
    ELSE Matches(a.query, doc) /\ doc.state \in {"READY", "RESERVED"}

\* m_query without the condition on the state
m_query_WAITING(a, fw_id, doc) ==
    IF a.fw_id # NoNumber THEN fw_id = a.fw_id[1] ELSE Matches(a.query, doc)

\* m_query whose query path matches a RESERVED firework too
m_query_RESERVED(a, fw_id, doc) ==
    IF a.fw_id # NoNumber
    THEN fw_id = a.fw_id[1] /\ doc.state \in {"READY", "RESERVED"}
    ELSE Matches(a.query, doc) /\ doc.state \in {"READY", "RESERVED"}

m_query(a, fw_id, doc) ==
    IF a.fw_id # NoNumber
    THEN fw_id = a.fw_id[1] /\ doc.state \in {"READY", "RESERVED"}
    ELSE Matches(a.query, doc) /\ doc.state = "READY"

\* MongoDB's order on spec._priority: a missing value is below every number
PriorityBelow(p, q) == IF p = NoNumber THEN q # NoNumber
                       ELSE q # NoNumber /\ p[1] < q[1]

\* sortby: d1 comes strictly before d2: spec._priority DESCENDING, then
\* created_on ASCENDING under FIFO, DESCENDING under FILO, nothing otherwise
sortby_NOPRIORITY(d1, d2) ==
    \/ SORT_FWS = "FIFO" /\ d1.created_on < d2.created_on
    \/ SORT_FWS = "FILO" /\ d1.created_on > d2.created_on

sortby(d1, d2) ==
    \/ PriorityBelow(d2.priority, d1.priority)
    \/ /\ d1.priority = d2.priority
       /\ \/ SORT_FWS = "FIFO" /\ d1.created_on < d2.created_on
          \/ SORT_FWS = "FILO" /\ d1.created_on > d2.created_on

\* the documents matching m_query, and those of them the sort may put first
\* (MongoDB picks any one of the documents the sort does not tell apart)
Candidates(a) == {f \in DOMAIN fireworks : m_query(a, f, fireworks[f])}
First(a) == {f \in Candidates(a) :
                \A g \in Candidates(a) : ~ sortby(fireworks[g], fireworks[f])}

\* the document a find returns
Found(f) == [fw_id |-> f, doc |-> fireworks[f]]

\* json.dumps of an action dict: its text, here the list of its values in
\* the order of the keys; json.loads builds the dict from the text
json_dumps_UNSIZED(action_dict) == [json |-> <<action_dict.stored_data, FALSE>>]

json_dumps(action_dict) == [json |-> <<action_dict.stored_data, action_dict.big>>]

json_loads(action_data) == [stored_data |-> action_data.json[1], big |-> action_data.json[2]]

\* the action a launch document holds is a reference into the GridFS
IsGridfsRef(action_dict) == "gridfs_id" \in DOMAIN action_dict

\* get_action_from_gridfs(action_dict, fallback_fs): the action itself, or
\* the action read from the file its gridfs_id names
get_action_from_gridfs(action_dict, fallback_fs) ==
    IF action_dict = NoAction \/ ~ IsGridfsRef(action_dict)
    THEN action_dict
    ELSE json_loads(fallback_fs.files[action_dict.gridfs_id].data)

\* _get_launch_by_fw_id(fw_id, launch_idx) for a launch_idx that is not None:
\* None without launches, else the launch at that (Python) index with
\* launch_idx made non-negative and its action read through the GridFS
_get_launch_by_fw_id(f, launch_idx) ==
    LET launch_ids == fireworks[f].launches
        idx == IF launch_idx >= 0 THEN launch_idx ELSE Len(launch_ids) + launch_idx
    IN  IF Len(launch_ids) = 0 THEN None
        ELSE [launch_idx |-> Some(idx),
              launch |-> [launches[launch_ids[idx + 1]] EXCEPT
                            !.action = get_action_from_gridfs(@, gridfs_fallback)]]

\* the index is in range and its launch document exists
LaunchIdxOk(f, launch_idx) ==
    LET launch_ids == fireworks[f].launches
        idx == IF launch_idx >= 0 THEN launch_idx ELSE Len(launch_ids) + launch_idx
    IN  Len(launch_ids) = 0
        \/ (launch_idx < Len(launch_ids) /\ launch_idx >= - Len(launch_ids)
            /\ launch_ids[idx + 1] \in DOMAIN launches)

\* get_fw_dict_by_id(fw_id, launch_idx) as the Firework object built from it:
\* the launch is loaded only for a truthy launch_idx and a state other than
\* WAITING and READY; otherwise the launch is {"state": state}
get_fw_dict_by_id(f, launch_idx) ==
    LET doc == fireworks[f]
        loaded == IF launch_idx # 0 /\ doc.state \notin {"WAITING", "READY"}
                  THEN _get_launch_by_fw_id(f, launch_idx)
                  ELSE None
    IN  IF loaded = None
        THEN FwObject(f, doc, NoNumber, Launch(doc.state, <<>>, NoAction))
        ELSE FwObject(f, doc, loaded.launch_idx, loaded.launch)

\* _get_a_fw_to_run, checkout=True, first statement of the loop: one atomic
\* find_one_and_update sets state RESERVED and updated_on on the first match
find_one_and_update(w, a) ==
    /\ pc[w] = "idle" \/ (pc[w] = "loop" /\ a = args[w])
    /\ a.checkout
    /\ args' = [args EXCEPT ![w] = a]
    /\ IF Candidates(a) = {}
       THEN /\ found' = [found EXCEPT ![w] = None]
            /\ ret' = [ret EXCEPT ![w] = None]
            /\ pc' = [pc EXCEPT ![w] = "done"]
            /\ UNCHANGED fireworks
       ELSE \E f \in First(a) :
            /\ found' = [found EXCEPT ![w] = Found(f)]
            /\ fireworks' = [fireworks EXCEPT ![f].state = "RESERVED", ![f].updated_on = now]
            /\ pc' = [pc EXCEPT ![w] = "found"]
            /\ UNCHANGED ret
    /\ UNCHANGED <<fw_id_assigner, launches, workflows, config, m_fw, history>>

\* _get_a_fw_to_run, checkout=False: find_one only reads
find_one(w, a) ==
    /\ pc[w] = "idle" \/ (pc[w] = "loop" /\ a = args[w])
    /\ ~ a.checkout
    /\ args' = [args EXCEPT ![w] = a]
    /\ IF Candidates(a) = {}
       THEN /\ found' = [found EXCEPT ![w] = None]
            /\ ret' = [ret EXCEPT ![w] = None]
            /\ pc' = [pc EXCEPT ![w] = "done"]
       ELSE \E f \in First(a) :
            /\ found' = [found EXCEPT ![w] = Found(f)]
            /\ pc' = [pc EXCEPT ![w] = "found"]
            /\ UNCHANGED ret
    /\ UNCHANGED <<store, config, m_fw, history>>

\* the duplicate finders a spec may declare: verify is not implemented
\* (DupeFinderExact), or answers True or False for the two specs
DupeFinders == {[verify |-> v] : v \in {"NotImplementedError", "True", "False"}}

\* m_dupefinder.query(spec) matches the document: the same spec
dupefinder_query(thief_fw, doc) ==
    /\ doc.category = thief_fw.category
    /\ doc.priority = thief_fw.priority
    /\ doc.dupefinder = thief_fw.dupefinder

\* verified that is true whatever verify answers
verified_ALWAYS(m_dupefinder) == TRUE

\* verified (lines 961-977): verification is skipped when verify is not
\* implemented, else it is what verify(spec1, spec2) answers
verified(m_dupefinder) == m_dupefinder.verify \in {"NotImplementedError", "True"}

\* valuable_launches that takes every launch of the victim
valuable_launches_ALL(seq, have) == seq

\* the launch ids of seq that are not in have, in their order
valuable_launches(seq, have) == SelectSeq(seq, LAMBDA l : \A i \in 1 .. Len(have) : have[i] # l)

\* the loop of _steal_launches over the potential matches from fw_id g on,
\* with the launches the thief has so far
RECURSIVE steal_from(_, _, _)
steal_from(thief_fw, g, thief_launches) ==
    IF \A h \in DOMAIN fireworks : h < g THEN thief_launches
    ELSE IF /\ g \in DOMAIN fireworks
            /\ dupefinder_query(thief_fw, fireworks[g])
            /\ verified(thief_fw.dupefinder)
         THEN steal_from(thief_fw, g + 1,
                         thief_launches \o valuable_launches(fireworks[g].launches, thief_launches))
         ELSE steal_from(thief_fw, g + 1, thief_launches)

\* _steal_launches that never finds a duplicate
_steal_launches_UNIQUE(thief_fw) ==
    [stolen |-> FALSE, launches |-> fireworks[thief_fw.fw_id].launches]

\* _steal_launches(thief_fw): whether launches were stolen, and the launches
\* of the thief afterwards
_steal_launches(thief_fw) ==
    LET thief_launches == fireworks[thief_fw.fw_id].launches
        launch_ids == IF thief_fw.state \in {"READY", "RESERVED"} /\ thief_fw.dupefinder # NoDupeFinder
                      THEN steal_from(thief_fw, 1, thief_launches)
                      ELSE thief_launches
    IN  [stolen |-> launch_ids # thief_launches, launches |-> launch_ids]

\* _get_a_fw_to_run, rest of the loop: get_fw_by_id loads the firework found
\* (ValueError when it is gone).  A firework that declares no '_dupefinder'
\* is unique, _steal_launches has nothing to do and it is returned; one that
\* declares it goes through _check_fw_for_uniqueness.
get_fw_by_id(w) ==
    /\ pc[w] = "found"
    /\ LET f == found[w].fw_id
       IN  IF f \in DOMAIN fireworks /\ LaunchIdxOk(f, -1)
           THEN IF fireworks[f].dupefinder = NoDupeFinder
                THEN /\ ret' = [ret EXCEPT ![w] = get_fw_dict_by_id(f, -1)]
                     /\ pc' = [pc EXCEPT ![w] = "done"]
                     /\ UNCHANGED m_fw
                ELSE /\ m_fw' = [m_fw EXCEPT ![w] = get_fw_dict_by_id(f, -1)]
                     /\ pc' = [pc EXCEPT ![w] = "unique"]
                     /\ UNCHANGED ret
           ELSE /\ ret' = [ret EXCEPT ![w] = ValueError]
                /\ pc' = [pc EXCEPT ![w] = "done"]
                /\ UNCHANGED m_fw
    /\ UNCHANGED <<store, config, args, found, history>>

\* "if self._check_fw_for_uniqueness(m_fw): return m_fw" (lines 617-618): a
\* firework from which nothing was stolen is unique and is returned; for a
\* duplicate the launches stolen are stored with the thief and the loop goes
\* on to the next find_one_and_update
_check_fw_for_uniqueness(w) ==
    /\ pc[w] = "unique"
    /\ LET thief == _steal_launches(m_fw[w])
       IN  IF ~ thief.stolen
           THEN /\ ret' = [ret EXCEPT ![w] = m_fw[w]]
                /\ pc' = [pc EXCEPT ![w] = "done"]
                /\ UNCHANGED fireworks
           ELSE /\ fireworks' = [fireworks EXCEPT ![m_fw[w].fw_id].launches = thief.launches]
                /\ pc' = [pc EXCEPT ![w] = "loop"]
                /\ UNCHANGED ret
    /\ UNCHANGED <<fw_id_assigner, launches, workflows, config, args, found, m_fw, history>>

(* ------------------------ specification: checkout ----------------------- *)

\* the fireworks the workers race for: any state and category, no priority,
\* all created at the same time
InitCheckout ==
    /\ fw_id_assigner = [next_fw_id |-> NumFws + 1, next_launch_id |-> 1]
    /\ fireworks \in [1..NumFws ->
                        {[NewFw(state, NoNumber, category, 1) EXCEPT !.updated_on = MaxTime] :
                            state \in FwStates, category \in Categories}]
    /\ launches = EmptyColl
    /\ workflows = {[nodes |-> {f}] : f \in 1..NumFws}
    /\ SORT_FWS = "FIFO"
    /\ locals = None
    /\ gridfs_fallback = None
    /\ WFLOCK_EXPIRATION_KILL = FALSE
    /\ now = MaxTime
    /\ pc = [w \in Workers |-> "idle"]
    /\ args = [w \in Workers |-> None]
    /\ found = [w \in Workers |-> None]
    /\ m_fw = [w \in Workers |-> None]
    /\ ret = [w \in Workers |-> NotReturned]
    /\ fireworks0 = fireworks
    /\ fwGrants = <<>>
    /\ launchGrants = <<>>

\* the calls a worker may make: a query and no fw_id, or a fw_id (which
\* overrides the query)
Calls(checkout) ==
    {Args(query, NoNumber, checkout) : query \in Queries}
    \cup {Args(AnyQuery, Some(f), checkout) : f \in 1..NumFws}

\* every worker calls _get_a_fw_to_run(checkout=True) once
NextCheckout ==
    \E w \in Workers :
        \/ \E a \in Calls(TRUE) : find_one_and_update(w, a)
        \/ get_fw_by_id(w)

SpecCheckout == InitCheckout /\ [][NextCheckout]_vars

(* ------------------- specification: checkout order --------------------- *)

\* the fireworks one worker chooses from: READY or RESERVED, any priority,
\* creation time and category, under every setting of SORT_FWS
InitOrder ==
    /\ fw_id_assigner = [next_fw_id |-> NumFws + 1, next_launch_id |-> 1]
    /\ fireworks \in [1..NumFws ->
                        {[NewFw(state, priority, category, created_on) EXCEPT !.updated_on = MaxTime] :
                            state \in {"READY", "RESERVED"}, priority \in Priorities,
                            category \in Categories, created_on \in CreationTimes}]
    /\ launches = EmptyColl
    /\ workflows = {[nodes |-> {f}] : f \in 1..NumFws}
    /\ SORT_FWS \in SortSettings
    /\ locals = None
    /\ gridfs_fallback = None
    /\ WFLOCK_EXPIRATION_KILL = FALSE
    /\ now = MaxTime
    /\ pc = [w \in Workers |-> "idle"]
    /\ args = [w \in Workers |-> None]
    /\ found = [w \in Workers |-> None]
    /\ m_fw = [w \in Workers |-> None]
    /\ ret = [w \in Workers |-> NotReturned]
    /\ fireworks0 = fireworks
    /\ fwGrants = <<>>
    /\ launchGrants = <<>>

\* one worker calls _get_a_fw_to_run once, with checkout=True or False
NextOrder ==
    \/ \E a \in Calls(TRUE) : find_one_and_update(1, a)
    \/ \E a \in Calls(FALSE) : find_one(1, a)
    \/ get_fw_by_id(1)

SpecOrder == InitOrder /\ [][NextOrder]_vars

(* -------------------------- update and checkin ------------------------- *)

\* Firework.STATE_RANKS: WAITING below READY, RESERVED and FIZZLED, these at
\* 0, RUNNING above them and COMPLETED on top
STATE_RANKS ==
    [state \in {"WAITING", "READY", "RESERVED", "FIZZLED", "RUNNING", "COMPLETED"} |->
        CASE state = "WAITING" -> -1
          [] state \in {"READY", "RESERVED", "FIZZLED"} -> 0
          [] state = "RUNNING" -> 1
          [] state = "COMPLETED" -> 2]

\* the Firework.state setter: the state of the object and of its launch, a new
\* state_history entry for a new state, updated_on
state_setter(fw, state) ==
    [fw EXCEPT !.state = state,
               !.updated_on = now,
               !.launch = [@ EXCEPT !.state = state,
                                    !.state_history =
                                        IF Len(@) > 0 /\ @[Len(@)].state = state THEN @
                                        ELSE Append(@, Entry(state))]]

\* what "return m_fw" hands to the caller: the very object the worker holds
\* (m_fw[w]), not a copy of it
TheObject == [object |-> "m_fw"]

\* state=None, allowed_states=None
NoState == "None"
NoStates == <<>>

\* the arguments of _update_fw after m_fw; allowed_states is a list of states
\* (a single str is the list of that one state) or None
UpdateArgs(state, allowed_states, launch_idx, touch_history) ==
    [state |-> state, allowed_states |-> allowed_states, launch_idx |-> launch_idx,
     touch_history |-> touch_history]

\* the calls workers make: no new state, or COMPLETED with and without
\* touch_history (which makes no difference when there is no new state)
UpdateCalls ==
    {UpdateArgs(NoState, allowed_states, -1, TRUE) :
        allowed_states \in {NoStates, Some({"RUNNING"})}}
    \cup {UpdateArgs("COMPLETED", allowed_states, -1, touch_history) :
            allowed_states \in {NoStates, Some({"RUNNING"})}, touch_history \in BOOLEAN}

\* m_fw.state is not in allowed_states (lines 787-792)
NotAllowed(fw, a) == a.allowed_states # NoStates /\ fw.state \notin a.allowed_states[1]

\* m_fw after "if touch_history and state is not None: m_fw.state = state"
Touched(fw, a) == IF a.touch_history /\ a.state # NoState THEN state_setter(fw, a.state) ELSE fw

\* reset_launch (lines 796-800)
reset_launch_NEVER(fw, a) == FALSE

reset_launch(fw, a) ==
    /\ a.state # NoState
    /\ STATE_RANKS[a.state] > STATE_RANKS[fw.state]
    /\ STATE_RANKS[fw.state] <= 0

\* query_dict matches the stored firework document
query_dict(fw, a) ==
    /\ fw.fw_id \in DOMAIN fireworks
    /\ a.allowed_states = NoStates \/ fireworks[fw.fw_id].state \in a.allowed_states[1]

\* _update_fw(fw_id: int, ...), line 784: the firework is loaded first, and
\* the rest of _update_fw works on the object loaded.  A worker loads once;
\* from then on it works on the object it holds.
_update_fw_int(w, f, launch_idx) ==
    /\ pc[w] = "idle" /\ m_fw[w] = None
    /\ f \in DOMAIN fireworks /\ LaunchIdxOk(f, launch_idx)
    /\ m_fw' = [m_fw EXCEPT ![w] = get_fw_dict_by_id(f, launch_idx)]
    /\ UNCHANGED <<store, config, checkoutVars, ret, history>>

\* _update_fw, lines 786-815 and 821-826, without the early return
_update_fw_ALWAYS(w, a) ==
    /\ pc[w] = "idle" /\ m_fw[w] # None
    /\ LET fw == m_fw[w]
           new == Touched(fw, a)
       IN  /\ m_fw' = [m_fw EXCEPT ![w] = new]
           /\ fireworks' = [fireworks EXCEPT ![fw.fw_id].state = new.state,
                                             ![fw.fw_id].updated_on = new.updated_on]
           /\ UNCHANGED <<fw_id_assigner, launches, workflows>>
           /\ ret' = [ret EXCEPT ![w] = TheObject]
           /\ UNCHANGED checkoutVars
    /\ UNCHANGED <<config, history>>

\* _update_fw, lines 786-819 and 821-826, on the Firework object the worker
\* holds: the early return, the state setter, and the conditional write of
\* the fireworks document.  When that write matched on the non-reset path
\* and the document has launches, update_one follows.
_update_fw(w, a) ==
    /\ pc[w] = "idle" /\ m_fw[w] # None
    /\ LET fw == m_fw[w]
           new == Touched(fw, a)
           lids == IF query_dict(fw, a) THEN fireworks[fw.fw_id].launches ELSE <<>>
       IN  /\ IF NotAllowed(fw, a)
              THEN /\ ret' = [ret EXCEPT ![w] = None]
                   /\ UNCHANGED <<store, checkoutVars, m_fw>>
              ELSE /\ m_fw' = [m_fw EXCEPT ![w] = new]
                   /\ fireworks' = IF query_dict(fw, a)
                                   THEN [fireworks EXCEPT ![fw.fw_id].state = new.state,
                                                          ![fw.fw_id].updated_on = new.updated_on]
                                   ELSE fireworks
                   /\ UNCHANGED <<fw_id_assigner, launches, workflows>>
                   /\ IF reset_launch(fw, a) \/ lids = <<>>
                      THEN /\ ret' = [ret EXCEPT ![w] = TheObject]
                           /\ UNCHANGED checkoutVars
                      ELSE IF a.launch_idx >= Len(lids) \/ a.launch_idx < - Len(lids)
                      THEN /\ ret' = [ret EXCEPT ![w] = ValueError]
                           /\ UNCHANGED checkoutVars
                      ELSE /\ pc' = [pc EXCEPT ![w] = "update_one"]
                           /\ found' = [found EXCEPT ![w] =
                                           [launch_id |-> lids[IF a.launch_idx >= 0 THEN a.launch_idx + 1
                                                               ELSE Len(lids) + a.launch_idx + 1]]]
                           /\ UNCHANGED <<args, ret>>
    /\ UNCHANGED <<config, history>>

\* command_dict_launch applied to a launches document (line 805)
command_dict_launch(doc, launch) ==
    [doc EXCEPT !.state_history = launch.state_history, !.trackers = launch.trackers]

\* _update_fw, lines 820 and 826: update_one on the launch of query_dict
\* ({'launch_id': lids[launch_idx]}, kept in found), then "return m_fw"
update_one(w) ==
    /\ pc[w] = "update_one"
    /\ LET launch_id == found[w].launch_id
       IN  launches' = IF launch_id \in DOMAIN launches
                       THEN [launches EXCEPT ![launch_id] = command_dict_launch(@, m_fw[w].launch)]
                       ELSE launches
    /\ ret' = [ret EXCEPT ![w] = TheObject]
    /\ pc' = [pc EXCEPT ![w] = "idle"]
    /\ found' = [found EXCEPT ![w] = None]
    /\ UNCHANGED <<fw_id_assigner, fireworks, workflows, config, args, m_fw, history>>

\* the launch document is over the size limit of the store: its action is
\* inline and too big
TooLarge(launch) == ~ IsGridfsRef(launch.action) /\ launch.action # NoAction /\ launch.action.big

\* every firework of the store, whatever its launches
ids_to_refresh_ALL(launch_id) == DOMAIN fireworks

\* the ids of the fireworks whose launches list holds launch_id
ids_to_refresh(launch_id) ==
    {g \in DOMAIN fireworks :
        \E i \in DOMAIN fireworks[g].launches : fireworks[g].launches[i] = launch_id}

\* _checkin_fw that stores the launch whatever its size and never uses the GridFS
_checkin_fw_INLINE(w) ==
    /\ pc[w] = "idle" /\ m_fw[w] # None
    /\ m_fw[w].fw_id \in DOMAIN fireworks
    /\ LET fw == m_fw[w]
           launch_ids == fireworks[fw.fw_id].launches
       IN  /\ fw.launch_idx # NoNumber
           /\ fw.launch_idx[1] < Len(launch_ids)
           /\ launches' = Put(launches, launch_ids[fw.launch_idx[1] + 1], fw.launch)
           /\ ret' = [ret EXCEPT ![w] =
                        [ids_to_refresh |-> ids_to_refresh(launch_ids[fw.launch_idx[1] + 1])]]
    /\ UNCHANGED <<fw_id_assigner, fireworks, workflows, config, checkoutVars, m_fw, history>>

\* _checkin_fw(m_fw): the launch the object holds replaces the launches
\* document at launch_idx (upsert).  When the store refuses the document as
\* too large, the action goes into the GridFS and a reference takes its place
\* in the launch (m_launch is m_fw.launch itself, so in the object as well);
\* without a GridFS the error is raised and nothing is written.  The result
\* is that launch and the ids of the fireworks that list it.
_checkin_fw(w) ==
    /\ pc[w] = "idle" /\ m_fw[w] # None
    /\ m_fw[w].fw_id \in DOMAIN fireworks
    /\ LET fw == m_fw[w]
           launch_ids == fireworks[fw.fw_id].launches
       IN  IF fw.launch_idx = NoNumber
           THEN /\ ret' = [ret EXCEPT ![w] = [ids_to_refresh |-> {}]]
                /\ UNCHANGED <<launches, gridfs_fallback, m_fw>>
           ELSE /\ fw.launch_idx[1] < Len(launch_ids)
                /\ LET launch_id == launch_ids[fw.launch_idx[1] + 1]
                   IN IF ~ TooLarge(fw.launch)
                      THEN /\ launches' = Put(launches, launch_id, fw.launch)
                           /\ ret' = [ret EXCEPT ![w] = [ids_to_refresh |-> ids_to_refresh(launch_id)]]
                           /\ UNCHANGED <<gridfs_fallback, m_fw>>
                      ELSE IF gridfs_fallback = None
                      THEN /\ ret' = [ret EXCEPT ![w] = DocumentTooLarge]
                           /\ UNCHANGED <<launches, gridfs_fallback, m_fw>>
                      ELSE /\ Len(gridfs_fallback.files) < MaxFiles
                           /\ LET action_id == Len(gridfs_fallback.files) + 1
                                  launch_db_dict == [fw.launch EXCEPT !.action = [gridfs_id |-> action_id]]
                              IN /\ gridfs_fallback' =
                                       [files |-> Append(gridfs_fallback.files,
                                                         [data |-> json_dumps(fw.launch.action),
                                                          metadata |-> [launch_id |-> launch_id]])]
                                 /\ launches' = Put(launches, launch_id, launch_db_dict)
                                 /\ m_fw' = [m_fw EXCEPT ![w].launch = launch_db_dict]
                                 /\ ret' = [ret EXCEPT ![w] =
                                              [ids_to_refresh |-> ids_to_refresh(launch_id)]]
    /\ UNCHANGED <<fw_id_assigner, fireworks, workflows, SORT_FWS, locals, WFLOCK_EXPIRATION_KILL, now,
                   checkoutVars, history>>

\* the actions a task hands in: stored_data, and whether they make the launch
\* document too large for the store
Actions == {[stored_data |-> d, big |-> b] : d \in {<<1>>, <<1, 2>>}, b \in BOOLEAN}

\* checkin_fw before it calls _checkin_fw: the worker puts the new state and
\* the action of the task into the Firework it holds
checkin_fw(w, action, state) ==
    /\ pc[w] = "idle" /\ m_fw[w] # None
    /\ m_fw[w].launch_idx # NoNumber
    /\ m_fw[w].launch.action # action
    /\ m_fw' = [m_fw EXCEPT ![w] = [state_setter(m_fw[w], state) EXCEPT !.launch.action = action]]
    /\ UNCHANGED <<store, config, checkoutVars, ret, history>>

(* ------------------ specification: update and checkin ------------------ *)

\* one firework with one launch, RESERVED or RUNNING
InitLaunch ==
    /\ fw_id_assigner = [next_fw_id |-> 2, next_launch_id |-> 2]
    /\ \E h \in {<<Entry("RESERVED")>>, <<Entry("RESERVED"), Entry("RUNNING")>>} :
          /\ fireworks = Put(EmptyColl, 1,
                             [NewFw(h[Len(h)].state, NoNumber, NoCategory, 1) EXCEPT !.launches = <<1>>])
          /\ launches = Put(EmptyColl, 1, Launch(h[Len(h)].state, h, NoAction))
    /\ workflows = {[nodes |-> {1}]}
    /\ SORT_FWS = ""
    /\ locals = None
    /\ gridfs_fallback = None
    /\ WFLOCK_EXPIRATION_KILL = FALSE
    /\ now = MaxTime
    /\ pc = [w \in Workers |-> "idle"]
    /\ args = [w \in Workers |-> None]
    /\ found = [w \in Workers |-> None]
    /\ m_fw = [w \in Workers |-> None]
    /\ ret = [w \in Workers |-> NotReturned]
    /\ fireworks0 = fireworks
    /\ fwGrants = <<>>
    /\ launchGrants = <<>>

\* the workers load, update and check in the firework in any order
NextLaunch ==
    \E w \in Workers :
        \/ _update_fw_int(w, 1, -1)
        \/ \E a \in UpdateCalls : _update_fw(w, a)
        \/ update_one(w)
        \/ _checkin_fw(w)

SpecLaunch == InitLaunch /\ [][NextLaunch]_vars

(* ------------------- specification: checkin overflow ------------------ *)

\* one RUNNING firework with one launch, with or without a GridFS
InitOverflow ==
    /\ fw_id_assigner = [next_fw_id |-> 2, next_launch_id |-> 2]
    /\ fireworks = Put(EmptyColl, 1, [NewFw("RUNNING", NoNumber, NoCategory, 1) EXCEPT !.launches = <<1>>])
    /\ launches = Put(EmptyColl, 1,
                      Launch("RUNNING", <<Entry("RESERVED"), Entry("RUNNING")>>, NoAction))
    /\ workflows = {[nodes |-> {1}]}
    /\ SORT_FWS = ""
    /\ locals = None
    /\ gridfs_fallback \in {None, [files |-> <<>>]}
    /\ WFLOCK_EXPIRATION_KILL = FALSE
    /\ now = MaxTime
    /\ pc = [w \in Workers |-> "idle"]
    /\ args = [w \in Workers |-> None]
    /\ found = [w \in Workers |-> None]
    /\ m_fw = [w \in Workers |-> None]
    /\ ret = [w \in Workers |-> NotReturned]
    /\ fireworks0 = fireworks
    /\ fwGrants = <<>>
    /\ launchGrants = <<>>

\* the workers load the firework, take the action of the task and check in
NextOverflow ==
    \E w \in Workers :
        \/ _update_fw_int(w, 1, -1)
        \/ \E action \in Actions : checkin_fw(w, action, "COMPLETED")
        \/ _checkin_fw(w)

SpecOverflow == InitOverflow /\ [][NextOverflow]_vars

(* ------------------- specification: shared launches ------------------- *)

\* the launches lists of firework 2: launch 1, launch 2, both or none
SharedLaunches == {<<>>, <<1>>, <<2>>, <<1, 2>>}

\* NumFws + 1 RUNNING fireworks over two launches: firework 1 lists launch
\* 1, firework 2 one of SharedLaunches, the others launch 2
InitShared ==
    /\ fw_id_assigner = [next_fw_id |-> NumFws + 2, next_launch_id |-> 3]
    /\ \E ls \in SharedLaunches :
          fireworks = [f \in 1 .. NumFws + 1 |->
                         [NewFw("RUNNING", NoNumber, NoCategory, 1) EXCEPT
                             !.launches = IF f = 1 THEN <<1>> ELSE IF f = 2 THEN ls ELSE <<2>>]]
    /\ launches = [l \in 1 .. 2 |->
                     Launch("RUNNING", <<Entry("RESERVED"), Entry("RUNNING")>>, NoAction)]
    /\ workflows = {[nodes |-> 1 .. NumFws + 1]}
    /\ SORT_FWS = ""
    /\ locals = None
    /\ gridfs_fallback = None
    /\ WFLOCK_EXPIRATION_KILL = FALSE
    /\ now = MaxTime
    /\ pc = [w \in Workers |-> "idle"]
    /\ args = [w \in Workers |-> None]
    /\ found = [w \in Workers |-> None]
    /\ m_fw = [w \in Workers |-> None]
    /\ ret = [w \in Workers |-> NotReturned]
    /\ fireworks0 = fireworks
    /\ fwGrants = <<>>
    /\ launchGrants = <<>>

\* the workers load a firework at its last or its second launch, take the
\* (small) action of the task and check in
NextShared ==
    \E w \in Workers :
        \/ \E f \in DOMAIN fireworks : \E launch_idx \in {-1, 1} : _update_fw_int(w, f, launch_idx)
        \/ checkin_fw(w, [stored_data |-> <<1>>, big |-> FALSE], "COMPLETED")
        \/ _checkin_fw(w)

SpecShared == InitShared /\ [][NextShared]_vars

(* ------------------------ timeouts of launches ------------------------- *)

\* datetime.isoformat() of a time of the integer clock: its text, here the
\* two digits of the time
isoformat(t) == <<t \div 10, t % 10>>

\* the order of two such texts, as the store compares strings
StrLte(s, t) == s[1] < t[1] \/ (s[1] = t[1] /\ s[2] <= t[2])

\* a state_history entry with its time, as stored
TimedEntry(state, t) == [state |-> state, created_on |-> isoformat(t), updated_on |-> isoformat(t)]

\* a launches document of a firework, with the fw_id that
\* _find_timeout_fws reads from it
LaunchOf(f, state, state_history) ==
    [fw_id |-> f, state |-> state, state_history |-> state_history,
     trackers |-> <<>>, action |-> NoAction]

\* expiration_secs of the calls; the clock starts late enough for the cutoff
\* to be a time of the clock
ExpirationSecs == {1, 2}
NoQuery == [query |-> "None"]
TimeoutQueries == {NoQuery, [state |-> "RESERVED"], [state |-> "RUNNING"]}

\* _find_timeout_fws that compares with the time of the call, not the cutoff
cutoff_timestr_NOW(expiration_secs) == isoformat(now)

\* lines 699-700
cutoff_timestr(expiration_secs) == isoformat(now - expiration_secs)

\* lostruns_query (lines 701-713) matches the launches document
lostruns_query(launch, state, expiration_secs, query) ==
    /\ launch.state = state
    /\ \E i \in 1 .. Len(launch.state_history) :
          /\ launch.state_history[i].state = state
          /\ StrLte(launch.state_history[i].updated_on, cutoff_timestr(expiration_secs))
    /\ query # NoQuery =>
          \E f \in DOMAIN fireworks : fireworks[f].state = query.state /\ launch.fw_id = f

\* _find_timeout_fws(state, expiration_secs, query): the fw_ids of the
\* launches matching lostruns_query
_find_timeout_fws(w, state, expiration_secs, query) ==
    /\ pc[w] = "idle"
    /\ ret' = [ret EXCEPT ![w] =
                 [fw_ids |-> {launches[l].fw_id : l \in
                                {l \in DOMAIN launches :
                                    lostruns_query(launches[l], state, expiration_secs, query)}}]]
    /\ UNCHANGED <<store, config, checkoutVars, m_fw, history>>

\* checkout of a READY firework as far as the launches collection sees it:
\* the firework is RESERVED and lists a new launch that entered RESERVED now
checkout_fw(w, f) ==
    /\ pc[w] = "idle"
    /\ f \in DOMAIN fireworks /\ fireworks[f].state = "READY"
    /\ fw_id_assigner # None
    /\ fireworks' = [fireworks EXCEPT ![f].state = "RESERVED", ![f].updated_on = now,
                                      ![f].launches = <<fw_id_assigner.next_launch_id>>]
    /\ launches' = Put(launches, fw_id_assigner.next_launch_id,
                       LaunchOf(f, "RESERVED", <<TimedEntry("RESERVED", now)>>))
    /\ fw_id_assigner' = NewLaunchId(fw_id_assigner).assigner
    /\ UNCHANGED <<workflows, config, checkoutVars, m_fw, ret, history>>

\* the worker starts the task: firework and launch are RUNNING, the launch
\* with a new state_history entry
start_running(w, f) ==
    /\ pc[w] = "idle"
    /\ f \in DOMAIN fireworks /\ fireworks[f].state = "RESERVED"
    /\ fireworks' = [fireworks EXCEPT ![f].state = "RUNNING", ![f].updated_on = now]
    /\ launches' = [launches EXCEPT ![fireworks[f].launches[1]] =
                      [@ EXCEPT !.state = "RUNNING",
                                !.state_history = Append(@, TimedEntry("RUNNING", now))]]
    /\ UNCHANGED <<fw_id_assigner, workflows, config, checkoutVars, m_fw, ret, history>>

\* datetime.datetime.utcnow() moves on
tick ==
    /\ now < MaxClock
    /\ now' = now + 1
    /\ UNCHANGED <<store, SORT_FWS, locals, gridfs_fallback, WFLOCK_EXPIRATION_KILL, checkoutVars, m_fw,
                   ret, history>>

(* ------------------------ specification: timeouts ----------------------- *)

\* NumFws READY fireworks without launches, at a time of the clock from
\* which the texts of the times grow by a digit
InitTimeout ==
    /\ fw_id_assigner = [next_fw_id |-> NumFws + 1, next_launch_id |-> 1]
    /\ fireworks = [f \in 1 .. NumFws |-> NewFw("READY", NoNumber, NoCategory, 8)]
    /\ launches = EmptyColl
    /\ workflows = {[nodes |-> {f}] : f \in 1 .. NumFws}
    /\ SORT_FWS = ""
    /\ locals = None
    /\ gridfs_fallback = None
    /\ WFLOCK_EXPIRATION_KILL = FALSE
    /\ now = 8
    /\ pc = [w \in Workers |-> "idle"]
    /\ args = [w \in Workers |-> None]
    /\ found = [w \in Workers |-> None]
    /\ m_fw = [w \in Workers |-> None]
    /\ ret = [w \in Workers |-> NotReturned]
    /\ fireworks0 = fireworks
    /\ fwGrants = <<>>
    /\ launchGrants = <<>>

\* worker 1 reserves and runs fireworks, worker 2 looks for timeouts, time passes
NextTimeout ==
    \/ \E f \in DOMAIN fireworks : checkout_fw(1, f)
    \/ \E f \in DOMAIN fireworks : start_running(1, f)
    \/ \E state \in {"RESERVED", "RUNNING"} : \E expiration_secs \in ExpirationSecs :
          \E query \in TimeoutQueries : _find_timeout_fws(2, state, expiration_secs, query)
    \/ tick

SpecTimeout == InitTimeout /\ [][NextTimeout]_vars

(* --------------------- specification: lost launches -------------------- *)

\* the updates that take a launch on: to RUNNING, or to a terminal state
LostCalls == {UpdateArgs(state, NoStates, -1, TRUE) : state \in {"RUNNING", "COMPLETED", "FIZZLED"}}

\* one firework RESERVED since the clock started, with its launch
InitLost ==
    /\ fw_id_assigner = [next_fw_id |-> 2, next_launch_id |-> 2]
    /\ fireworks = Put(EmptyColl, 1, [NewFw("RESERVED", NoNumber, NoCategory, 8) EXCEPT !.launches = <<1>>])
    /\ launches = Put(EmptyColl, 1, LaunchOf(1, "RESERVED", <<TimedEntry("RESERVED", 8)>>))
    /\ workflows = {[nodes |-> {1}]}
    /\ SORT_FWS = ""
    /\ locals = None
    /\ gridfs_fallback = None
    /\ WFLOCK_EXPIRATION_KILL = FALSE
    /\ now = 8
    /\ pc = [w \in Workers |-> "idle"]
    /\ args = [w \in Workers |-> None]
    /\ found = [w \in Workers |-> None]
    /\ m_fw = [w \in Workers |-> None]
    /\ ret = [w \in Workers |-> NotReturned]
    /\ fireworks0 = fireworks
    /\ fwGrants = <<>>
    /\ launchGrants = <<>>

\* worker 1 loads the firework, takes it on by update until it is in a
\* terminal state and checks it in; worker 2 looks for lost reservations; time passes
NextLost ==
    \/ _update_fw_int(1, 1, -1)
    \/ \E a \in LostCalls :
          /\ m_fw[1] # None /\ m_fw[1].state \in {"RESERVED", "RUNNING"}
          /\ _update_fw(1, a)
    \/ update_one(1)
    \/ _checkin_fw(1)
    \/ \E expiration_secs \in ExpirationSecs : _find_timeout_fws(2, "RESERVED", expiration_secs, NoQuery)
    \/ tick

SpecLost == InitLost /\ [][NextLost]_vars

(* ----------------------- specification: duplicates --------------------- *)

\* firework 1 has run: it is COMPLETED with launch 1.  The others are READY;
\* firework 1 and firework 2 declare a duplicate finder each, and their
\* categories make their specs the same or not.
InitDupes ==
    /\ fw_id_assigner = [next_fw_id |-> NumFws + 2, next_launch_id |-> 2]
    /\ \E d1, d2 \in DupeFinders : \E category \in Categories :
          fireworks = [f \in 1 .. NumFws + 1 |->
                         IF f = 1
                         THEN [NewFw("COMPLETED", NoNumber, "a", 1) EXCEPT
                                  !.launches = <<1>>, !.dupefinder = d1]
                         ELSE IF f = 2
                         THEN [NewFw("READY", NoNumber, category, 1) EXCEPT !.dupefinder = d2]
                         ELSE NewFw("READY", NoNumber, "a", 1)]
    /\ launches = Put(EmptyColl, 1,
                      Launch("COMPLETED", <<Entry("RESERVED"), Entry("RUNNING"), Entry("COMPLETED")>>,
                             NoAction))
    /\ workflows = {[nodes |-> {f}] : f \in 1 .. NumFws + 1}
    /\ SORT_FWS = "FIFO"
    /\ locals = None
    /\ gridfs_fallback = None
    /\ WFLOCK_EXPIRATION_KILL = FALSE
    /\ now = MaxTime
    /\ pc = [w \in Workers |-> "idle"]
    /\ args = [w \in Workers |-> None]
    /\ found = [w \in Workers |-> None]
    /\ m_fw = [w \in Workers |-> None]
    /\ ret = [w \in Workers |-> NotReturned]
    /\ fireworks0 = fireworks
    /\ fwGrants = <<>>
    /\ launchGrants = <<>>

\* every worker calls _get_a_fw_to_run(query, checkout=True) once
NextDupes ==
    \E w \in Workers :
        \/ \E query \in Queries : find_one_and_update(w, Args(query, NoNumber, TRUE))
        \/ get_fw_by_id(w)
        \/ _check_fw_for_uniqueness(w)

SpecDupes == InitDupes /\ [][NextDupes]_vars

(* ------------------ specification: merges of launches ------------------ *)

\* the launches lists fireworks start with: up to two launch ids, none twice
MergeLists ==
    {<<>>} \cup {<<a>> : a \in 1 .. MaxLaunchId}
           \cup {x \in (1 .. MaxLaunchId) \X (1 .. MaxLaunchId) : x[1] # x[2]}

\* _steal_launches(thief_fw) called on the stored firework f: the answer and
\* the launches of the object afterwards; nothing is stored
call_steal_launches(w, f) ==
    /\ pc[w] = "idle"
    /\ f \in DOMAIN fireworks /\ LaunchIdxOk(f, -1)
    /\ ret' = [ret EXCEPT ![w] = _steal_launches(get_fw_dict_by_id(f, -1))]
    /\ UNCHANGED <<store, config, checkoutVars, m_fw, history>>

\* three fireworks with launches of earlier attempts: firework 1 COMPLETED,
\* the others READY; they declare the same duplicate finder or none, and the
\* category of firework 3 makes its spec the same or not
InitMerge ==
    /\ fw_id_assigner = [next_fw_id |-> 4, next_launch_id |-> MaxLaunchId + 1]
    /\ \E d \in DupeFinders \cup {NoDupeFinder} : \E category \in Categories :
       \E lists \in [1 .. 3 -> MergeLists] :
          /\ Len(lists[3]) <= 1
          /\ fireworks = [f \in 1 .. 3 |->
                            [NewFw(IF f = 1 THEN "COMPLETED" ELSE "READY", NoNumber,
                                   IF f = 3 THEN category ELSE "a", 1)
                                EXCEPT !.launches = lists[f], !.dupefinder = d]]
    /\ launches = [l \in 1 .. MaxLaunchId |->
                     Launch("FIZZLED", <<Entry("RESERVED"), Entry("FIZZLED")>>, NoAction)]
    /\ workflows = {[nodes |-> {f}] : f \in 1 .. 3}
    /\ SORT_FWS = ""
    /\ locals = None
    /\ gridfs_fallback = None
    /\ WFLOCK_EXPIRATION_KILL = FALSE
    /\ now = MaxTime
    /\ pc = [w \in Workers |-> "idle"]
    /\ args = [w \in Workers |-> None]
    /\ found = [w \in Workers |-> None]
    /\ m_fw = [w \in Workers |-> None]
    /\ ret = [w \in Workers |-> NotReturned]
    /\ fireworks0 = fireworks
    /\ fwGrants = <<>>
    /\ launchGrants = <<>>

\* worker 1 checks out by query or by fw_id, which merges the launches of
\* duplicates one firework after the other, or calls _steal_launches itself
NextMerge ==
    \/ find_one_and_update(1, Args(AnyQuery, NoNumber, TRUE))
    \/ \E f \in DOMAIN fireworks : find_one_and_update(1, Args(AnyQuery, Some(f), TRUE))
    \/ get_fw_by_id(1)
    \/ _check_fw_for_uniqueness(1)
    \/ \E f \in DOMAIN fireworks : call_steal_launches(1, f)

SpecMerge == InitMerge /\ [][NextMerge]_vars

(* ------------------ the states a workflow keeps of its fireworks -------- *)

\* a workflows document with the state of the workflow and fw_states
Workflow(nodes, state, fw_states) == [nodes |-> nodes, state |-> state, fw_states |-> fw_states]

\* _internal_fizzle(fw_id): the fireworks document is set FIZZLED, then the
\* workflows document that has the firework among its nodes: its state and
\* its fw_states entry
_internal_fizzle(w, fw_id) ==
    /\ pc[w] = "idle"
    /\ fireworks' = IF fw_id \in DOMAIN fireworks
                    THEN [fireworks EXCEPT ![fw_id].state = "FIZZLED"]
                    ELSE fireworks
    /\ workflows' = {IF fw_id \in wf.nodes
                     THEN [wf EXCEPT !.state = "FIZZLED",
                                     !.fw_states = [f \in DOMAIN @ \cup {fw_id} |->
                                                      IF f = fw_id THEN "FIZZLED" ELSE @[f]]]
                     ELSE wf : wf \in workflows}
    /\ UNCHANGED <<fw_id_assigner, launches, config, checkoutVars, m_fw, ret, history>>

(* ------------------- specification: workflow states -------------------- *)

\* one workflow of two fireworks, firework 1 RUNNING with launch 1 and
\* firework 2 READY, and fw_states as the fireworks are
InitStates ==
    /\ fw_id_assigner = [next_fw_id |-> 3, next_launch_id |-> 2]
    /\ fireworks = [f \in 1 .. 2 |->
                      IF f = 1
                      THEN [NewFw("RUNNING", NoNumber, NoCategory, 1) EXCEPT !.launches = <<1>>]
                      ELSE NewFw("READY", NoNumber, NoCategory, 1)]
    /\ launches = Put(EmptyColl, 1,
                      Launch("RUNNING", <<Entry("RESERVED"), Entry("RUNNING")>>, NoAction))
    /\ workflows = {Workflow({1, 2}, "RUNNING", [f \in 1 .. 2 |-> fireworks[f].state])}
    /\ SORT_FWS = ""
    /\ locals = None
    /\ gridfs_fallback = None
    /\ WFLOCK_EXPIRATION_KILL = FALSE
    /\ now = MaxTime
    /\ pc = [w \in Workers |-> "idle"]
    /\ args = [w \in Workers |-> None]
    /\ found = [w \in Workers |-> None]
    /\ m_fw = [w \in Workers |-> None]
    /\ ret = [w \in Workers |-> NotReturned]
    /\ fireworks0 = fireworks
    /\ fwGrants = <<>>
    /\ launchGrants = <<>>

\* the workers check out, update the running firework, or fizzle one
NextStates ==
    \E w \in Workers :
        \/ find_one_and_update(w, Args(AnyQuery, NoNumber, TRUE))
        \/ get_fw_by_id(w)
        \/ _update_fw_int(w, 1, -1)
        \/ \E a \in UpdateCalls : _update_fw(w, a)
        \/ update_one(w)
        \/ \E f \in DOMAIN fireworks : _internal_fizzle(w, f)

SpecStates == InitStates /\ [][NextStates]_vars

(* ----------------------- the lock of a workflow ------------------------ *)

\* fw_config.WFLOCK_EXPIRATION_SECS, in ticks of the clock
WFLOCK_EXPIRATION_SECS == 2

\* the 'locked' field of a workflows document: absent, or set with the time
\* it was set at; _update_wf sets it to True without a time
Unlocked == [locked |-> FALSE]
Locked(since) == [locked |-> TRUE, since |-> since]

\* a workflows document with its lock
LockedWorkflow(wf, locked) ==
    [nodes |-> wf.nodes, state |-> wf.state, fw_states |-> wf.fw_states, locked |-> locked]

\* the lock is older than the expiration
Expired(locked) ==
    /\ locked # Unlocked
    /\ locked.since # NoNumber
    /\ now - locked.since[1] >= WFLOCK_EXPIRATION_SECS

\* a lock that every attempt acquires
Acquirable_ALWAYS(locked) == TRUE

\* an attempt acquires the lock: it is not set, or it has expired and
\* expired locks are broken
Acquirable(locked) ==
    \/ locked = Unlocked
    \/ WFLOCK_EXPIRATION_KILL /\ Expired(locked)

\* WFLock(fw_id).__enter__, one attempt: one atomic update sets the lock of
\* the workflow of fw_id when it can be acquired; else the worker waits for
\* the next attempt, and gives up with LockedWorkflowError after MaxTries
WFLock_enter(w, fw_id) ==
    /\ pc[w] = "idle" \/ (pc[w] = "waiting" /\ args[w].fw_id = fw_id)
    /\ \E wf \in workflows :
          /\ fw_id \in wf.nodes
          /\ LET ctr == IF pc[w] = "waiting" THEN args[w].ctr ELSE 0
             IN  IF Acquirable(wf.locked)
                 THEN /\ workflows' = (workflows \ {wf}) \cup
                                         {LockedWorkflow(wf, Locked(Some(now)))}
                      /\ pc' = [pc EXCEPT ![w] = "locked"]
                      /\ args' = [args EXCEPT ![w] = [fw_id |-> fw_id, ctr |-> ctr]]
                      /\ ret' = [ret EXCEPT ![w] = NotReturned]
                 ELSE IF ctr + 1 < MaxTries
                 THEN /\ pc' = [pc EXCEPT ![w] = "waiting"]
                      /\ args' = [args EXCEPT ![w] = [fw_id |-> fw_id, ctr |-> ctr + 1]]
                      /\ UNCHANGED <<workflows, ret>>
                 ELSE /\ pc' = [pc EXCEPT ![w] = "done"]
                      /\ args' = [args EXCEPT ![w] = [fw_id |-> fw_id, ctr |-> ctr + 1]]
                      /\ ret' = [ret EXCEPT ![w] = LockedWorkflowError]
                      /\ UNCHANGED workflows
    /\ UNCHANGED <<fw_id_assigner, fireworks, launches, config, found, m_fw, history>>

\* the 'locked' field _update_wf writes when it does not preserve the lock
preserve_the_lock_NOT == Unlocked

\* wf['locked'] = True  # preserve the lock!  (line 939)
preserve_the_lock == Locked(NoNumber)

\* _update_wf(wf, updated_ids) with no firework to update, inside the lock:
\* the workflows document is replaced by the workflow with locked = True,
\* and the call returns
_update_wf(w) ==
    /\ pc[w] = "locked"
    /\ \E wf \in workflows :
          /\ args[w].fw_id \in wf.nodes
          /\ workflows' = (workflows \ {wf}) \cup {LockedWorkflow(wf, preserve_the_lock)}
    /\ ret' = [ret EXCEPT ![w] = None]
    /\ UNCHANGED <<fw_id_assigner, fireworks, launches, config, checkoutVars, m_fw, history>>

\* WFLock.__exit__: the lock is unset, whoever set it
WFLock_exit(w) ==
    /\ pc[w] = "locked"
    /\ \E wf \in workflows :
          /\ args[w].fw_id \in wf.nodes
          /\ workflows' = (workflows \ {wf}) \cup {LockedWorkflow(wf, Unlocked)}
    /\ pc' = [pc EXCEPT ![w] = "idle"]
    /\ UNCHANGED <<fw_id_assigner, fireworks, launches, config, args, found, m_fw, ret, history>>

(* --------------------- specification: workflow lock -------------------- *)

\* one workflow of two fireworks, not locked; expired locks are broken or not
InitLock ==
    /\ fw_id_assigner = [next_fw_id |-> 3, next_launch_id |-> 1]
    /\ fireworks = [f \in 1 .. 2 |-> NewFw("READY", NoNumber, NoCategory, 8)]
    /\ launches = EmptyColl
    /\ workflows = {LockedWorkflow(Workflow({1, 2}, "READY", [f \in 1 .. 2 |-> "READY"]), Unlocked)}
    /\ SORT_FWS = ""
    /\ locals = None
    /\ gridfs_fallback = None
    /\ WFLOCK_EXPIRATION_KILL \in BOOLEAN
    /\ now = 8
    /\ pc = [w \in Workers |-> "idle"]
    /\ args = [w \in Workers |-> None]
    /\ found = [w \in Workers |-> None]
    /\ m_fw = [w \in Workers |-> None]
    /\ ret = [w \in Workers |-> NotReturned]
    /\ fireworks0 = fireworks
    /\ fwGrants = <<>>
    /\ launchGrants = <<>>

\* the workers edit the workflow through either of its fireworks, time passes
NextLock ==
    \/ \E w \in Workers :
          \/ \E fw_id \in 1 .. 2 : WFLock_enter(w, fw_id)
          \/ _update_wf(w)
          \/ WFLock_exit(w)
    \/ tick

SpecLock == InitLock /\ [][NextLock]_vars

(* --------------------------- offline recovery -------------------------- *)

\* FW_offline.json: which of 'started_on', 'checkpoint' and 'fwaction' it
\* holds, and the 'state' that goes with the fwaction
OfflineData ==
    [started_on : BOOLEAN, checkpoint : BOOLEAN, fwaction : BOOLEAN, state : {"COMPLETED", "FIZZLED"}]

\* the action recover_offline checks in for a failed replay (lines 1097-1101)
m_action == [stored_data |-> <<0>>, big |-> FALSE, exit |-> TRUE]

\* the FWAction found in FW_offline.json
fwaction == [stored_data |-> <<1>>, big |-> FALSE]

\* _refresh_wf(fw_id): the workflow takes the stored state of the firework
\* into its fw_states
_refresh_wf(wfs, fws, fw_id) ==
    {IF fw_id \in wf.nodes
     THEN [wf EXCEPT !.fw_states = [f \in DOMAIN @ |-> IF f = fw_id THEN fws[f].state ELSE @[f]]]
     ELSE wf : wf \in wfs}

\* _update_fw(m_fw, state, touch_history=...) without allowed_states, run to
\* its end: the object, the fireworks and the launches collection after it
Updated(fw, a) ==
    LET new == Touched(fw, a)
        lids == IF fw.fw_id \in DOMAIN fireworks THEN fireworks[fw.fw_id].launches ELSE <<>>
    IN  [m_fw |-> new,
         fireworks |-> IF fw.fw_id \in DOMAIN fireworks
                       THEN [fireworks EXCEPT ![fw.fw_id].state = new.state,
                                              ![fw.fw_id].updated_on = new.updated_on]
                       ELSE fireworks,
         launches |-> IF reset_launch(fw, a) \/ lids = <<>> THEN launches
                      ELSE [launches EXCEPT ![lids[Len(lids)]] = command_dict_launch(@, new.launch)]]

\* checkin_fw(fw_id, action, state, launch_idx): the firework is loaded at
\* launch_idx, takes the state and the action, _checkin_fw stores its launch,
\* and every firework that lists the launch takes the state
CheckedIn(fw_id, action, state, launch_idx) ==
    LET fw == [state_setter(get_fw_dict_by_id(fw_id, launch_idx), state) EXCEPT !.launch.action = action]
        launch_ids == fireworks[fw_id].launches
        launch_id == launch_ids[fw.launch_idx[1] + 1]
        fws == [g \in DOMAIN fireworks |->
                  IF g \in ids_to_refresh(launch_id)
                  THEN [fireworks[g] EXCEPT !.state = state, !.updated_on = now]
                  ELSE fireworks[g]]
    IN  IF fw.launch_idx = NoNumber
        THEN [m_fw |-> fw, fireworks |-> fireworks, launches |-> launches]
        ELSE [m_fw |-> fw, fireworks |-> fws, launches |-> Put(launches, launch_id, fw.launch)]

\* recover_offline(fw_id, ignore_errors), line 1033: the firework is loaded
recover_offline(w, fw_id, ignore_errors, offline_data) ==
    /\ pc[w] = "idle"
    /\ fw_id \in DOMAIN fireworks /\ LaunchIdxOk(fw_id, -1)
    /\ m_fw' = [m_fw EXCEPT ![w] = get_fw_dict_by_id(fw_id, -1)]
    /\ args' = [args EXCEPT ![w] = [fw_id |-> fw_id, ignore_errors |-> ignore_errors,
                                    offline_data |-> offline_data]]
    /\ pc' = [pc EXCEPT ![w] = "ping_firework"]
    /\ UNCHANGED <<store, config, found, ret, history>>

\* lines 1037-1040 and 1043-1046: the ping file and FW_offline.json are read
ping_firework(w) ==
    /\ pc[w] = "ping_firework"
    /\ pc' = [pc EXCEPT ![w] = "started_on"]
    /\ UNCHANGED <<store, config, args, found, m_fw, ret, history>>

\* lines 1047-1063: with 'started_on' the firework is OFFLINE-RUNNING and is
\* updated, and the workflow refreshed
started_on(w) ==
    /\ pc[w] = "started_on"
    /\ IF args[w].offline_data.started_on
       THEN LET u == Updated(state_setter(m_fw[w], "OFFLINE-RUNNING"),
                             UpdateArgs(NoState, NoStates, -1, TRUE))
            IN  /\ m_fw' = [m_fw EXCEPT ![w] = u.m_fw]
                /\ fireworks' = u.fireworks
                /\ launches' = u.launches
                /\ workflows' = _refresh_wf(workflows, u.fireworks, args[w].fw_id)
       ELSE UNCHANGED <<fireworks, launches, workflows, m_fw>>
    /\ pc' = [pc EXCEPT ![w] = "checkpoint"]
    /\ UNCHANGED <<fw_id_assigner, config, args, found, ret, history>>

\* m_fw.touch_history(checkpoint=...): the last state_history entry takes the checkpoint
touch_history(fw) ==
    [fw EXCEPT !.launch.state_history =
        IF Len(@) = 0 THEN @
        ELSE [@ EXCEPT ![Len(@)] = [state |-> @.state, checkpoint |-> TRUE]]]

\* lines 1066-1068: with 'checkpoint' the history is touched and the firework updated
checkpoint(w) ==
    /\ pc[w] = "checkpoint"
    /\ IF args[w].offline_data.checkpoint
       THEN LET u == Updated(touch_history(m_fw[w]), UpdateArgs(NoState, NoStates, -1, FALSE))
            IN  /\ m_fw' = [m_fw EXCEPT ![w] = u.m_fw]
                /\ fireworks' = u.fireworks
                /\ launches' = u.launches
       ELSE UNCHANGED <<fireworks, launches, m_fw>>
    /\ pc' = [pc EXCEPT ![w] = "fwaction"]
    /\ UNCHANGED <<fw_id_assigner, workflows, config, args, found, ret, history>>

\* lines 1070-1075: with 'fwaction' the firework is checked in with the
\* state of the offline data; without it recover_offline returns None
checkin_fw_offline(w) ==
    /\ pc[w] = "fwaction"
    /\ IF args[w].offline_data.fwaction
       THEN LET c == CheckedIn(args[w].fw_id, fwaction, args[w].offline_data.state,
                               IF m_fw[w].launch_idx = NoNumber THEN -1 ELSE m_fw[w].launch_idx[1])
            IN  /\ m_fw' = [m_fw EXCEPT ![w] = c.m_fw]
                /\ fireworks' = c.fireworks
                /\ launches' = c.launches
                /\ workflows' = _refresh_wf(workflows, c.fireworks, args[w].fw_id)
                /\ pc' = [pc EXCEPT ![w] = "_update_fw"]
                /\ UNCHANGED ret
       ELSE /\ pc' = [pc EXCEPT ![w] = "done"]
            /\ ret' = [ret EXCEPT ![w] = None]
            /\ UNCHANGED <<fireworks, launches, workflows, m_fw>>
    /\ UNCHANGED <<fw_id_assigner, config, args, found, history>>

\* lines 1083 and 1090: the firework is updated with the state of the
\* offline data, and recover_offline returns None
_update_fw_offline(w) ==
    /\ pc[w] = "_update_fw"
    /\ LET u == Updated(m_fw[w], UpdateArgs(args[w].offline_data.state, NoStates, -1, FALSE))
       IN  /\ m_fw' = [m_fw EXCEPT ![w] = u.m_fw]
           /\ fireworks' = u.fireworks
           /\ launches' = u.launches
    /\ pc' = [pc EXCEPT ![w] = "done"]
    /\ ret' = [ret EXCEPT ![w] = None]
    /\ UNCHANGED <<fw_id_assigner, workflows, config, args, found, history>>

\* a step of the replay raises (a file is missing or unreadable, a call fails)
raise(w) ==
    /\ pc[w] \in {"ping_firework", "started_on", "checkpoint", "fwaction", "_update_fw"}
    /\ pc' = [pc EXCEPT ![w] = "except"]
    /\ UNCHANGED <<store, config, args, found, m_fw, ret, history>>

\* the except clause that checks in FIZZLED whatever ignore_errors is
except_ALWAYS(w) ==
    /\ pc[w] = "except"
    /\ LET c == CheckedIn(m_fw[w].fw_id, m_action, "FIZZLED",
                          IF m_fw[w].launch_idx = NoNumber THEN -1 ELSE m_fw[w].launch_idx[1])
       IN  /\ fireworks' = c.fireworks
           /\ launches' = c.launches
           /\ workflows' = _refresh_wf(workflows, c.fireworks, m_fw[w].fw_id)
    /\ ret' = [ret EXCEPT ![w] = Id(m_fw[w].fw_id)]
    /\ pc' = [pc EXCEPT ![w] = "done"]
    /\ UNCHANGED <<fw_id_assigner, config, args, found, m_fw, history>>

\* the except clause (lines 1091-1104): unless ignore_errors, the firework is
\* checked in FIZZLED with m_action at the launch_idx of m_fw; the fw_id is returned
except(w) ==
    /\ pc[w] = "except"
    /\ IF ~ args[w].ignore_errors
       THEN LET c == CheckedIn(m_fw[w].fw_id, m_action, "FIZZLED",
                               IF m_fw[w].launch_idx = NoNumber THEN -1 ELSE m_fw[w].launch_idx[1])
            IN  /\ fireworks' = c.fireworks
                /\ launches' = c.launches
                /\ workflows' = _refresh_wf(workflows, c.fireworks, m_fw[w].fw_id)
       ELSE UNCHANGED <<fireworks, launches, workflows>>
    /\ ret' = [ret EXCEPT ![w] = Id(m_fw[w].fw_id)]
    /\ pc' = [pc EXCEPT ![w] = "done"]
    /\ UNCHANGED <<fw_id_assigner, config, args, found, m_fw, history>>

(* ------------------- specification: offline recovery ------------------- *)

\* one firework that runs offline, OFFLINE-RESERVED or OFFLINE-RUNNING, in a
\* workflow of its own; the attempt is its first launch, or its second after
\* a first that FIZZLED
InitOffline ==
    /\ \E h \in {<<Entry("OFFLINE-RESERVED")>>,
                 <<Entry("OFFLINE-RESERVED"), Entry("OFFLINE-RUNNING")>>} :
       \E n \in 1 .. MaxLaunchId :
          /\ fw_id_assigner = [next_fw_id |-> 2, next_launch_id |-> n + 1]
          /\ fireworks = Put(EmptyColl, 1,
                             [NewFw(h[Len(h)].state, NoNumber, NoCategory, 1)
                                 EXCEPT !.launches = [i \in 1 .. n |-> i]])
          /\ launches = [i \in 1 .. n |->
                            IF i = n THEN Launch(h[Len(h)].state, h, NoAction)
                            ELSE Launch("FIZZLED", <<Entry("RESERVED"), Entry("FIZZLED")>>, NoAction)]
          /\ workflows = {Workflow({1}, "RUNNING", [f \in {1} |-> h[Len(h)].state])}
    /\ SORT_FWS = ""
    /\ locals = None
    /\ gridfs_fallback = None
    /\ WFLOCK_EXPIRATION_KILL = FALSE
    /\ now = MaxTime
    /\ pc = [w \in Workers |-> "idle"]
    /\ args = [w \in Workers |-> None]
    /\ found = [w \in Workers |-> None]
    /\ m_fw = [w \in Workers |-> None]
    /\ ret = [w \in Workers |-> NotReturned]
    /\ fireworks0 = fireworks
    /\ fwGrants = <<>>
    /\ launchGrants = <<>>

\* worker 1 recovers the firework once, and any step of the replay may raise
NextOffline ==
    \/ \E ignore_errors \in BOOLEAN : \E offline_data \in OfflineData :
          recover_offline(1, 1, ignore_errors, offline_data)
    \/ ping_firework(1)
    \/ started_on(1)
    \/ checkpoint(1)
    \/ checkin_fw_offline(1)
    \/ _update_fw_offline(1)
    \/ raise(1)
    \/ except(1)

SpecOffline == InitOffline /\ [][NextOffline]_vars

\* the longest state_history of a launch that is replayed once more
MaxHistory == 4

\* recover_offline(fw_id, ignore_errors) called once more after a replay that
\* went through: nothing records that the offline run was replayed, the same
\* FW_offline.json is read, and the firework is loaded as it is stored now
recover_offline_again(w) ==
    /\ pc[w] = "done" /\ ret[w] = None
    /\ LaunchIdxOk(args[w].fw_id, -1)
    /\ \A l \in DOMAIN launches : Len(launches[l].state_history) <= MaxHistory
    /\ m_fw' = [m_fw EXCEPT ![w] = get_fw_dict_by_id(args[w].fw_id, -1)]
    /\ pc' = [pc EXCEPT ![w] = "ping_firework"]
    /\ ret' = [ret EXCEPT ![w] = NotReturned]
    /\ UNCHANGED <<store, config, args, found, history>>

\* worker 1 recovers the firework, and recovers it again from the same record
NextReplay ==
    \/ NextOffline
    \/ recover_offline_again(1)

SpecReplay == InitOffline /\ [][NextReplay]_vars

(* -------------------- a workflow of parents and children --------------- *)

\* a workflows document with its links, parent to children
LinkedWorkflow(nodes, links, state, fw_states) ==
    [nodes |-> nodes, links |-> links, state |-> state, fw_states |-> fw_states]

\* the parents of firework f in a workflow
parents(wf, f) == {p \in DOMAIN wf.links : f \in wf.links[p]}

\* propagate_state: a WAITING firework of the workflow whose parents are all
\* COMPLETED becomes READY
propagate_state(wf, fws) ==
    [f \in DOMAIN fws |->
        IF f \in wf.nodes /\ fws[f].state = "WAITING"
           /\ \A p \in parents(wf, f) : fws[p].state = "COMPLETED"
        THEN [fws[f] EXCEPT !.state = "READY", !.updated_on = now]
        ELSE fws[f]]

\* the worker holds the firework its checkout returned
Holds(w) == pc[w] = "done" /\ ret[w] \notin {None, ValueError, NotReturned}

\* checkout_fw after _get_a_fw_to_run returned a firework: the firework gets
\* the launch of this attempt, RESERVED
reserve_launch(w) ==
    /\ Holds(w)
    /\ fireworks[ret[w].fw_id].state = "RESERVED" /\ fireworks[ret[w].fw_id].launches = <<>>
    /\ fireworks' = [fireworks EXCEPT ![ret[w].fw_id].launches = <<fw_id_assigner.next_launch_id>>]
    /\ launches' = Put(launches, fw_id_assigner.next_launch_id,
                       Launch("RESERVED", <<Entry("RESERVED")>>, NoAction))
    /\ fw_id_assigner' = NewLaunchId(fw_id_assigner).assigner
    /\ pc' = [pc EXCEPT ![w] = "launched"]
    /\ UNCHANGED <<workflows, config, args, found, m_fw, ret, history>>

\* checkin_fw(fw_id, action, 'COMPLETED'): the firework and its launch are COMPLETED
checkin_completed(w) ==
    /\ pc[w] = "launched"
    /\ LET c == CheckedIn(ret[w].fw_id, fwaction, "COMPLETED", -1)
       IN  /\ fireworks' = c.fireworks
           /\ launches' = c.launches
           /\ m_fw' = [m_fw EXCEPT ![w] = c.m_fw]
    /\ pc' = [pc EXCEPT ![w] = "refresh"]
    /\ UNCHANGED <<fw_id_assigner, workflows, config, args, found, ret, history>>

\* _refresh_wf(fw_id) after the checkin: the states are propagated through
\* the workflow of the firework, and fw_states follows; the worker is done
\* with the firework
refresh_wf(w) ==
    /\ pc[w] = "refresh"
    /\ LET fws == IF \E wf \in workflows : ret[w].fw_id \in wf.nodes
                  THEN propagate_state(CHOOSE wf \in workflows : ret[w].fw_id \in wf.nodes, fireworks)
                  ELSE fireworks
       IN  /\ fireworks' = fws
           /\ workflows' = {[wf EXCEPT !.fw_states = [f \in DOMAIN @ |-> fws[f].state]] :
                               wf \in workflows}
    /\ pc' = [pc EXCEPT ![w] = "idle"]
    /\ args' = [args EXCEPT ![w] = None]
    /\ found' = [found EXCEPT ![w] = None]
    /\ m_fw' = [m_fw EXCEPT ![w] = None]
    /\ ret' = [ret EXCEPT ![w] = NotReturned]
    /\ UNCHANGED <<fw_id_assigner, launches, config, history>>

\* a worker whose checkout returned nothing to run calls again
call_again(w) ==
    /\ pc[w] = "done" /\ ~ Holds(w)
    /\ pc' = [pc EXCEPT ![w] = "idle"]
    /\ args' = [args EXCEPT ![w] = None]
    /\ found' = [found EXCEPT ![w] = None]
    /\ ret' = [ret EXCEPT ![w] = NotReturned]
    /\ UNCHANGED <<store, config, m_fw, history>>

(* -------------------- specification: parent and child ------------------- *)

\* one workflow, a chain 1 -> 2 -> ... : firework 1 is READY, the others WAITING
InitFlow ==
    /\ fw_id_assigner = [next_fw_id |-> NumFws + 1, next_launch_id |-> 1]
    /\ fireworks = [f \in 1 .. NumFws |->
                      NewFw(IF f = 1 THEN "READY" ELSE "WAITING", NoNumber, NoCategory, 1)]
    /\ launches = EmptyColl
    /\ workflows = {LinkedWorkflow(1 .. NumFws,
                                   [f \in 1 .. NumFws |-> {f + 1} \cap (1 .. NumFws)],
                                   "READY",
                                   [f \in 1 .. NumFws |-> IF f = 1 THEN "READY" ELSE "WAITING"])}
    /\ SORT_FWS = ""
    /\ locals = None
    /\ gridfs_fallback = None
    /\ WFLOCK_EXPIRATION_KILL = FALSE
    /\ now = MaxTime
    /\ pc = [w \in Workers |-> "idle"]
    /\ args = [w \in Workers |-> None]
    /\ found = [w \in Workers |-> None]
    /\ m_fw = [w \in Workers |-> None]
    /\ ret = [w \in Workers |-> NotReturned]
    /\ fireworks0 = fireworks
    /\ fwGrants = <<>>
    /\ launchGrants = <<>>

\* the workers check out by query or by fw_id, run what they get, check it in
\* and refresh the workflow, over and over
NextFlow ==
    \E w \in Workers :
        \/ find_one_and_update(w, Args(AnyQuery, NoNumber, TRUE))
        \/ \E f \in DOMAIN fireworks : find_one_and_update(w, Args(AnyQuery, Some(f), TRUE))
        \/ get_fw_by_id(w)
        \/ reserve_launch(w)
        \/ checkin_completed(w)
        \/ refresh_wf(w)
        \/ call_again(w)

SpecFlow == InitFlow /\ [][NextFlow]_vars

(* ------------------------------ rapidfire ------------------------------ *)

\* the arguments of the rapidfire calls: nlaunches (0: until completion, -1:
\* infinite), max_loops (-1: infinite) and timeout (None or seconds)
NLaunches == -1 .. MaxLoops
MaxLoopsArgs == -1 .. MaxLoops
Timeouts == {NoNumber} \cup {Some(t) : t \in 0 .. 2}

\* time_ok that never times out
time_ok_ALWAYS == TRUE

\* time_ok(), lines 91-94: has the rapidfire run timed out?
time_ok == locals.timeout = NoNumber \/ now - locals.start_time < locals.timeout[1]

\* launchpad.run_exists(): a firework is READY
run_exists(fws) == \E f \in DOMAIN fws : fws[f].state = "READY"

\* a launchpad that always expects a future run
future_run_exists_ALWAYS(fws) == TRUE

\* launchpad.future_run_exists(): a firework is READY, or one waits for a
\* parent that is still to run
future_run_exists(fws) == run_exists(fws) \/ \E f \in DOMAIN fws : fws[f].state = "WAITING"

\* rapidfire(launchpad, nlaunches, max_loops, timeout), lines 82-89
rapidfire(w, nlaunches, max_loops, timeout) ==
    /\ pc[w] = "idle" /\ locals = None
    /\ locals' = [nlaunches |-> nlaunches, max_loops |-> max_loops, timeout |-> timeout,
                  num_launched |-> 0, start_time |-> now, num_loops |-> 0, skip_check |-> FALSE]
    /\ pc' = [pc EXCEPT ![w] = "while"]
    /\ UNCHANGED <<store, SORT_FWS, gridfs_fallback, WFLOCK_EXPIRATION_KILL, now, args, found,
                   m_fw, ret, history>>

\* line 96-97: while num_loops != max_loops and time_ok(); line 133 after the loop
while_loops(w) ==
    /\ pc[w] = "while"
    /\ IF locals.num_loops # locals.max_loops /\ time_ok
       THEN /\ locals' = [locals EXCEPT !.skip_check = FALSE]
            /\ pc' = [pc EXCEPT ![w] = "while_run_exists"]
       ELSE /\ pc' = [pc EXCEPT ![w] = "done"]
            /\ UNCHANGED locals
    /\ UNCHANGED <<store, SORT_FWS, gridfs_fallback, WFLOCK_EXPIRATION_KILL, now, args, found,
                   m_fw, ret, history>>

\* lines 98-108: while (skip_check or launchpad.run_exists()) and time_ok():
\* a launcher directory is made and launch_rocket is called
while_run_exists(w) ==
    /\ pc[w] = "while_run_exists"
    /\ IF (locals.skip_check \/ run_exists(fireworks)) /\ time_ok
       THEN pc' = [pc EXCEPT ![w] = "launch_rocket"]
       ELSE pc' = [pc EXCEPT ![w] = "if_nlaunches"]
    /\ UNCHANGED <<store, config, args, found, m_fw, ret, history>>

\* a rapidfire that never finds its nlaunches reached
nlaunches_reached_NEVER(nlaunches, num_launched) == FALSE

\* line 116: if nlaunches > 0 and num_launched == nlaunches: break
nlaunches_reached(nlaunches, num_launched) == nlaunches > 0 /\ num_launched = nlaunches

\* lines 104-123: launch_rocket returns whether a rocket ran (a READY
\* firework was checked out and run to its end); num_launched counts it, the
\* loop breaks when nlaunches are reached, and skip_check is set
launch_rocket(w) ==
    /\ pc[w] = "launch_rocket"
    /\ \E f \in IF run_exists(fireworks) THEN First(Args(AnyQuery, NoNumber, TRUE)) ELSE {0} :
       \E state \in {"COMPLETED", "FIZZLED"} :
          LET rocket_ran == f # 0
              fws == IF rocket_ran
                     THEN [fireworks EXCEPT ![f].state = state]
                     ELSE fireworks
              num_launched == IF rocket_ran THEN locals.num_launched + 1 ELSE locals.num_launched
          IN  /\ rocket_ran \/ state = "COMPLETED"
              /\ fireworks' = fws
              /\ IF nlaunches_reached(locals.nlaunches, num_launched)
                 THEN /\ locals' = [locals EXCEPT !.num_launched = num_launched]
                      /\ pc' = [pc EXCEPT ![w] = "if_nlaunches"]
                 ELSE /\ locals' = [locals EXCEPT !.num_launched = num_launched,
                                                  !.skip_check = run_exists(fws)]
                      /\ pc' = [pc EXCEPT ![w] = "while_run_exists"]
    /\ UNCHANGED <<fw_id_assigner, launches, workflows, SORT_FWS, gridfs_fallback,
                   WFLOCK_EXPIRATION_KILL, now, args, found, m_fw, ret, history>>

\* lines 124-132: the loop breaks when nothing is left to run (nlaunches 0)
\* or nlaunches are reached; otherwise rapidfire sleeps sleep_time, a tick of
\* the clock, and counts the loop (past MaxLoops the count is not kept: only
\* an infinite max_loops lets it get there)
if_nlaunches(w) ==
    /\ pc[w] = "if_nlaunches"
    /\ IF IF locals.nlaunches = 0 THEN ~ future_run_exists(fireworks)
          ELSE locals.num_launched = locals.nlaunches
       THEN /\ pc' = [pc EXCEPT ![w] = "done"]
            /\ UNCHANGED <<locals, now>>
       ELSE /\ now' = IF now < MaxClock THEN now + 1 ELSE now
            /\ locals' = [locals EXCEPT !.num_loops = IF @ < MaxLoops THEN @ + 1 ELSE @]
            /\ pc' = [pc EXCEPT ![w] = "while"]
    /\ UNCHANGED <<store, SORT_FWS, gridfs_fallback, WFLOCK_EXPIRATION_KILL, args, found,
                   m_fw, ret, history>>

(* ----------------------- specification: rapidfire ---------------------- *)

\* two READY fireworks and a third that waits for a parent or not
InitRapidfire ==
    /\ fw_id_assigner = [next_fw_id |-> 4, next_launch_id |-> 1]
    /\ \E state \in {"WAITING", "COMPLETED"} :
          fireworks = [f \in 1 .. 3 |->
                         NewFw(IF f <= 2 THEN "READY" ELSE state, NoNumber, NoCategory, 1)]
    /\ launches = EmptyColl
    /\ workflows = {[nodes |-> {f}] : f \in 1 .. 3}
    /\ SORT_FWS = ""
    /\ locals = None
    /\ gridfs_fallback = None
    /\ WFLOCK_EXPIRATION_KILL = FALSE
    /\ now = 8
    /\ pc = [w \in Workers |-> "idle"]
    /\ args = [w \in Workers |-> None]
    /\ found = [w \in Workers |-> None]
    /\ m_fw = [w \in Workers |-> None]
    /\ ret = [w \in Workers |-> NotReturned]
    /\ fireworks0 = fireworks
    /\ fwGrants = <<>>
    /\ launchGrants = <<>>

\* the steps of the rapidfire that worker 1 runs
rapidfire_step ==
    \/ while_loops(1)
    \/ while_run_exists(1)
    \/ launch_rocket(1)
    \/ if_nlaunches(1)

\* worker 1 runs one rapidfire; the clock ticks while it runs, and worker 2
\* checks a firework out while a rocket of worker 1 is on its way to its own
NextRapidfire ==
    \/ \E nlaunches \in NLaunches : \E max_loops \in MaxLoopsArgs : \E timeout \in Timeouts :
          rapidfire(1, nlaunches, max_loops, timeout)
    \/ rapidfire_step
    \/ pc[1] \notin {"idle", "done"} /\ tick
    \/ pc[1] = "launch_rocket" /\ find_one_and_update(2, Args(AnyQuery, NoNumber, TRUE))
    \/ pc[1] = "launch_rocket" /\ get_fw_by_id(2)

\* a running rapidfire goes on: none of its steps blocks for ever
SpecRapidfire == InitRapidfire /\ [][NextRapidfire]_vars /\ WF_vars(rapidfire_step)

(* -------------- specification: concurrent replacements ----------------- *)

\* _replace_fw, first read (lines 671-672): the worker reads the launches of
\* the stored firework; the replacements that follow are database calls of
\* their own
_replace_fw_find_one(w, fw, upsert) ==
    /\ pc[w] = "idle"
    /\ fw.launch_idx # NoNumber /\ fw.launch.action = NoAction
    /\ args' = [args EXCEPT ![w] =
                  [fw |-> fw, upsert |-> upsert,
                   launch_ids |-> IF fw.fw_id \in DOMAIN fireworks
                                  THEN fireworks[fw.fw_id].launches ELSE <<>>]]
    /\ pc' = [pc EXCEPT ![w] = "replace_launch"]
    /\ ret' = [ret EXCEPT ![w] = NotReturned]
    /\ UNCHANGED <<store, config, found, m_fw, history>>

\* _replace_fw, lines 673-679: a launch id is drawn and appended to the list
\* read when launch_idx is past it, and the launch document is replaced
_replace_fw_launch(w) ==
    /\ pc[w] = "replace_launch"
    /\ LET fw == args[w].fw
           launch_ids == args[w].launch_ids
           draws_id == fw.launch_idx[1] >= Len(launch_ids)
       IN  IF draws_id /\ fw_id_assigner = None
           THEN /\ ret' = [ret EXCEPT ![w] = ValueError]
                /\ pc' = [pc EXCEPT ![w] = "idle"]
                /\ args' = [args EXCEPT ![w] = None]
                /\ UNCHANGED <<store, launchGrants>>
           ELSE /\ draws_id => fw_id_assigner.next_launch_id <= MaxLaunchId
                /\ LET launch_id == IF draws_id THEN NewLaunchId(fw_id_assigner).id
                                    ELSE launch_ids[fw.launch_idx[1] + 1]
                   IN /\ fw_id_assigner' = IF draws_id THEN NewLaunchId(fw_id_assigner).assigner
                                           ELSE fw_id_assigner
                      /\ launchGrants' = IF draws_id THEN Append(launchGrants, launch_id)
                                         ELSE launchGrants
                      /\ launches' = IF args[w].upsert \/ launch_id \in DOMAIN launches
                                     THEN Put(launches, launch_id, fw.launch)
                                     ELSE launches
                      /\ args' = [args EXCEPT ![w].launch_ids =
                                    IF draws_id THEN Append(launch_ids, launch_id) ELSE launch_ids]
                /\ pc' = [pc EXCEPT ![w] = "replace_fw"]
                /\ UNCHANGED <<fireworks, workflows, ret>>
    /\ UNCHANGED <<config, found, m_fw, fireworks0, fwGrants>>

\* _replace_fw, lines 683-684: the fireworks document is replaced by the
\* object's fields and the list the worker holds
_replace_fw_find_one_and_replace(w) ==
    /\ pc[w] = "replace_fw"
    /\ fireworks' = IF args[w].upsert \/ args[w].fw.fw_id \in DOMAIN fireworks
                    THEN Put(fireworks, args[w].fw.fw_id, FwDict(args[w].fw, args[w].launch_ids))
                    ELSE fireworks
    /\ ret' = [ret EXCEPT ![w] = None]
    /\ pc' = [pc EXCEPT ![w] = "idle"]
    /\ args' = [args EXCEPT ![w] = None]
    /\ UNCHANGED <<fw_id_assigner, launches, workflows, config, found, m_fw, history>>

\* NumFws fireworks, each with the launches of its earlier attempts, and the
\* launch ids that are left to draw
InitReplace ==
    /\ \E n \in 0 .. MaxLaunchId - 2 : \E state \in {"READY", "FIZZLED"} :
          /\ fw_id_assigner = [next_fw_id |-> NumFws + 1, next_launch_id |-> n + 1]
          /\ fireworks = [f \in 1 .. NumFws |->
                            [NewFw(state, NoNumber, NoCategory, 1)
                                EXCEPT !.launches = IF f = 1 THEN [i \in 1 .. n |-> i] ELSE <<>>]]
          /\ launches = [l \in 1 .. n |->
                           Launch("FIZZLED", <<Entry("RESERVED"), Entry("FIZZLED")>>, NoAction)]
    /\ workflows = {[nodes |-> {f}] : f \in 1 .. NumFws}
    /\ SORT_FWS = ""
    /\ locals = None
    /\ gridfs_fallback = None
    /\ WFLOCK_EXPIRATION_KILL = FALSE
    /\ now = 1
    /\ pc = [w \in Workers |-> "idle"]
    /\ args = [w \in Workers |-> None]
    /\ found = [w \in Workers |-> None]
    /\ m_fw = [w \in Workers |-> None]
    /\ ret = [w \in Workers |-> NotReturned]
    /\ fireworks0 = fireworks
    /\ fwGrants = <<>>
    /\ launchGrants = <<>>

\* each worker starts new attempts of stored fireworks through _replace_fw,
\* its database calls interleaved with those of the others
NextReplace ==
    \E w \in Workers :
        \/ \E f \in DOMAIN fireworks : \E upsert \in BOOLEAN :
              _replace_fw_find_one(w, NewAttempt(f), upsert)
        \/ _replace_fw_launch(w)
        \/ _replace_fw_find_one_and_replace(w)

SpecReplace == InitReplace /\ [][NextReplace]_vars

(* ------------- specification: replacing several fireworks --------------- *)

\* _replace_fw(fw, upsert=upsert) of an object that addresses no launch
\* (launch_idx None, lines 680-684), on the fireworks collection coll: the
\* launches stored are kept, and find_one_and_replace without upsert writes
\* nothing when no document has the fw_id
replace_fw(coll, fw, upsert) ==
    LET launch_ids == IF fw.fw_id \in DOMAIN coll THEN coll[fw.fw_id].launches ELSE <<>>
    IN  IF upsert \/ fw.fw_id \in DOMAIN coll
        THEN Put(coll, fw.fw_id, FwDict(fw, launch_ids))
        ELSE coll

\* for fw in fws: self._replace_fw(fw, upsert=upsert)
RECURSIVE for_fw_in_fws(_, _, _)
for_fw_in_fws(coll, fws, upsert) ==
    IF fws = <<>> THEN coll
    ELSE for_fw_in_fws(replace_fw(coll, Head(fws), upsert), Tail(fws), upsert)

\* delete_many({'fw_id': {'$in': fw_ids}}) on the fireworks collection
delete_many(coll, fw_ids) == [f \in DOMAIN coll \ fw_ids |-> coll[f]]

\* _replace_fws(fw_ids, fws, upsert): the documents of fw_ids are deleted,
\* then each firework of fws is written through _replace_fw
_replace_fws(w, fw_ids, fws, upsert) ==
    /\ \A i \in DOMAIN fws : fws[i].launch_idx = NoNumber
    /\ fireworks' = for_fw_in_fws(delete_many(fireworks, fw_ids), fws, upsert)
    /\ ret' = [ret EXCEPT ![w] = None]
    /\ UNCHANGED <<fw_id_assigner, launches, workflows, config, checkoutVars, m_fw, history>>

\* the ids of set S in ascending order
RECURSIVE Ascending(_)
Ascending(S) ==
    IF S = {} THEN <<>>
    ELSE LET least == CHOOSE x \in S : \A y \in S : x <= y
         IN  <<least>> \o Ascending(S \ {least})

\* the objects a worker holds of the fireworks S, with the state it gave them
EditedFws(S, state) ==
    [i \in 1 .. Cardinality(S) |->
        FwObject(Ascending(S)[i], [fireworks0[Ascending(S)[i]] EXCEPT !.state = state],
                 NoNumber, Launch(state, <<>>, NoAction))]

\* three fireworks that never ran, each READY or WAITING
InitReplaceAll ==
    /\ fw_id_assigner = [next_fw_id |-> 4, next_launch_id |-> 1]
    /\ \E states \in [1 .. 3 -> {"READY", "WAITING"}] :
          fireworks = [f \in 1 .. 3 |-> NewFw(states[f], NoNumber, NoCategory, 1)]
    /\ launches = EmptyColl
    /\ workflows = {[nodes |-> 1 .. 3]}
    /\ SORT_FWS = ""
    /\ locals = None
    /\ gridfs_fallback = None
    /\ WFLOCK_EXPIRATION_KILL = FALSE
    /\ now = 1
    /\ pc = [w \in Workers |-> "idle"]
    /\ args = [w \in Workers |-> None]
    /\ found = [w \in Workers |-> None]
    /\ m_fw = [w \in Workers |-> None]
    /\ ret = [w \in Workers |-> NotReturned]
    /\ fireworks0 = fireworks
    /\ fwGrants = <<>>
    /\ launchGrants = <<>>

\* a worker replaces some fireworks of the workflow, naming the ids to delete
NextReplaceAll ==
    \E w \in Workers : \E fw_ids, S \in SUBSET (1 .. 3) :
    \E state \in {"READY", "WAITING", "DEFUSED"} : \E upsert \in BOOLEAN :
        _replace_fws(w, fw_ids, EditedFws(S, state), upsert)

SpecReplaceAll == InitReplaceAll /\ [][NextReplaceAll]_vars

(* -------------------- specification: update_spec ----------------------- *)

\* allowed_states that lets every state through
allowed_states_ALL == {"READY", "WAITING", "FIZZLED", "DEFUSED", "PAUSED",
                       "RESERVED", "RUNNING", "COMPLETED"}

\* allowed_states of update_spec (line 215)
allowed_states == {"READY", "WAITING", "FIZZLED", "DEFUSED", "PAUSED"}

\* update_spec(fw_ids, spec_document) with spec_document {'_category': c}:
\* mod_spec is built; update_many then writes the documents one at a time
update_spec(w, fw_ids, category) ==
    /\ pc[w] = "idle"
    /\ args' = [args EXCEPT ![w] = [fw_ids |-> fw_ids, todo |-> fw_ids,
                                    spec_document |-> [category |-> category]]]
    /\ pc' = [pc EXCEPT ![w] = IF fw_ids = {} THEN "done" ELSE "update_many"]
    /\ ret' = [ret EXCEPT ![w] = IF fw_ids = {} THEN None ELSE NotReturned]
    /\ UNCHANGED <<store, config, found, m_fw, history>>

\* update_many({'fw_id': {'$in': fw_ids}, 'state': {'$in': allowed_states}},
\* mod_spec), one document: filter and $set are one atomic write.  After the
\* last document the find of lines 219-222 only logs, and update_spec returns
update_many(w) ==
    /\ pc[w] = "update_many"
    /\ \E f \in args[w].todo :
          /\ fireworks' = IF f \in DOMAIN fireworks /\ fireworks[f].state \in allowed_states
                          THEN [fireworks EXCEPT ![f].category = args[w].spec_document.category]
                          ELSE fireworks
          /\ args' = [args EXCEPT ![w].todo = @ \ {f}]
          /\ pc' = [pc EXCEPT ![w] = IF args[w].todo = {f} THEN "done" ELSE "update_many"]
          /\ ret' = [ret EXCEPT ![w] = IF args[w].todo = {f} THEN None ELSE NotReturned]
    /\ UNCHANGED <<fw_id_assigner, launches, workflows, config, found, m_fw, history>>

\* worker 1 updates the spec of some fireworks while worker 2 checks out
NextUpdateSpec ==
    \/ find_one_and_update(2, Args(AnyQuery, NoNumber, TRUE))
    \/ get_fw_by_id(2)
    \/ \E fw_ids \in SUBSET (1 .. NumFws) : \E category \in Categories :
          update_spec(1, fw_ids, category)
    \/ update_many(1)

SpecUpdateSpec == InitCheckout /\ [][NextUpdateSpec]_vars

(* ---------------- specification: deleting a workflow ------------------- *)

\* the launch ids in the launches list of a fireworks document
LaunchIdsOf(doc) == {doc.launches[i] : i \in 1 .. Len(doc.launches)}

\* _delete_wf(fw_id, fw_ids), lines 376-390: the launches of the fireworks
\* of the workflow are gathered, and those that no firework outside fw_ids
\* refers to are the ones to delete
_delete_wf(w, fw_id) ==
    /\ pc[w] = "idle"
    /\ \E wf \in workflows :
          /\ fw_id \in wf.nodes
          /\ LET fw_ids == wf.nodes \cap DOMAIN fireworks
                 potential_launches == UNION {LaunchIdsOf(fireworks[i]) : i \in fw_ids}
                 launch_ids == {i \in potential_launches :
                                  ~ \E f \in DOMAIN fireworks \ fw_ids :
                                       i \in LaunchIdsOf(fireworks[f])}
             IN  args' = [args EXCEPT ![w] = [fw_id |-> fw_id, fw_ids |-> wf.nodes,
                                              launch_ids |-> launch_ids]]
    /\ pc' = [pc EXCEPT ![w] = "delete_launches"]
    /\ UNCHANGED <<store, config, found, m_fw, ret, history>>

\* lines 392-397, without a GridFS: launches.delete_many({'launch_id':
\* {'$in': launch_ids}})
delete_many_launches(w) ==
    /\ pc[w] = "delete_launches"
    /\ gridfs_fallback = None
    /\ launches' = [l \in DOMAIN launches \ args[w].launch_ids |-> launches[l]]
    /\ pc' = [pc EXCEPT ![w] = "delete_fireworks"]
    /\ UNCHANGED <<fw_id_assigner, fireworks, workflows, config, args, found, m_fw, ret, history>>

\* lines 398-401: fireworks.delete_many, workflows.delete_one, and the
\* launch_dirs of the launches deleted are returned
delete_many_fireworks(w) ==
    /\ pc[w] = "delete_fireworks"
    /\ fireworks' = delete_many(fireworks, args[w].fw_ids)
    /\ workflows' = {wf \in workflows : args[w].fw_id \notin wf.nodes}
    /\ ret' = [ret EXCEPT ![w] = [launch_dirs |-> args[w].launch_ids]]
    /\ pc' = [pc EXCEPT ![w] = "done"]
    /\ UNCHANGED <<fw_id_assigner, launches, config, args, found, m_fw, history>>

\* worker 2 deletes one workflow while worker 1 checks out, which merges the
\* launches of duplicates
NextDelete ==
    \/ find_one_and_update(1, Args(AnyQuery, NoNumber, TRUE))
    \/ get_fw_by_id(1)
    \/ /\ pc[1] = "unique" /\ m_fw[1].fw_id \in DOMAIN fireworks
       /\ _check_fw_for_uniqueness(1)
    \/ \E fw_id \in DOMAIN fireworks : _delete_wf(2, fw_id)
    \/ delete_many_launches(2)
    \/ delete_many_fireworks(2)

SpecDelete == InitMerge /\ [][NextDelete]_vars

(* ---------------- specification: the loop of a checkout ---------------- *)

\* the calls of _get_a_fw_to_run that worker w may make: by query or by
\* fw_id, checking out or only looking
LoopCalls ==
    {Args(AnyQuery, fw_id, checkout) :
        fw_id \in {NoNumber} \cup {Some(f) : f \in 1 .. 3}, checkout \in BOOLEAN}

\* a step of the call that worker w is in: the while loop of lines 604-618
loop_step(w) ==
    \/ pc[w] = "loop" /\ find_one_and_update(w, args[w])
    \/ pc[w] = "loop" /\ find_one(w, args[w])
    \/ get_fw_by_id(w)
    \/ _check_fw_for_uniqueness(w)

\* worker 1 makes one call of any kind while worker 2 checks out by query;
\* no firework is inserted
NextLoop ==
    \/ \E a \in LoopCalls : pc[1] = "idle" /\ find_one_and_update(1, a)
    \/ \E a \in LoopCalls : pc[1] = "idle" /\ find_one(1, a)
    \/ pc[2] = "idle" /\ find_one_and_update(2, Args(AnyQuery, NoNumber, TRUE))
    \/ \E w \in {1, 2} : loop_step(w)

\* firework 1 has run and holds launch 1; fireworks 2 and 3 are READY,
\* with a launch of an earlier attempt or none; all declare the same
\* duplicate finder or none, and the category of firework 3 makes its spec
\* the same or not
InitLoop ==
    /\ fw_id_assigner = [next_fw_id |-> 4, next_launch_id |-> MaxLaunchId + 1]
    /\ \E d \in DupeFinders \cup {NoDupeFinder} : \E category \in Categories :
       \E l2 \in {<<>>, <<1>>} : \E l3 \in {<<>>, <<2>>} :
          fireworks = [f \in 1 .. 3 |->
                         [NewFw(IF f = 1 THEN "COMPLETED" ELSE "READY", NoNumber,
                                IF f = 3 THEN category ELSE "a", 1)
                             EXCEPT !.launches = IF f = 1 THEN <<1>> ELSE IF f = 2 THEN l2 ELSE l3,
                                    !.dupefinder = d]]
    /\ launches = [l \in 1 .. MaxLaunchId |->
                     Launch("FIZZLED", <<Entry("RESERVED"), Entry("FIZZLED")>>, NoAction)]
    /\ workflows = {[nodes |-> {f}] : f \in 1 .. 3}
    /\ SORT_FWS = ""
    /\ locals = None
    /\ gridfs_fallback = None
    /\ WFLOCK_EXPIRATION_KILL = FALSE
    /\ now = MaxTime
    /\ pc = [w \in Workers |-> "idle"]
    /\ args = [w \in Workers |-> None]
    /\ found = [w \in Workers |-> None]
    /\ m_fw = [w \in Workers |-> None]
    /\ ret = [w \in Workers |-> NotReturned]
    /\ fireworks0 = fireworks
    /\ fwGrants = <<>>
    /\ launchGrants = <<>>

\* a call that has begun goes on: no step of it waits for ever
SpecLoop == InitLoop /\ [][NextLoop]_vars /\ WF_vars(loop_step(1)) /\ WF_vars(loop_step(2))

(* ------------------ specification: allocator and reset ------------------ *)

\* a launchpad on a database that was never reset: empty collections, no id record
InitAlloc ==
    /\ fw_id_assigner = None
    /\ fireworks = EmptyColl
    /\ launches = EmptyColl
    /\ workflows = {}
    /\ SORT_FWS = ""
    /\ locals = None
    /\ gridfs_fallback = None
    /\ WFLOCK_EXPIRATION_KILL = FALSE
    /\ now = 1
    /\ pc = [w \in Workers |-> "idle"]
    /\ args = [w \in Workers |-> None]
    /\ found = [w \in Workers |-> None]
    /\ m_fw = [w \in Workers |-> None]
    /\ ret = [w \in Workers |-> NotReturned]
    /\ fireworks0 = EmptyColl
    /\ fwGrants = <<>>
    /\ launchGrants = <<>>

NextAlloc ==
    \E w \in Workers :
        \/ \E quantity \in 1..MaxQuantity : get_new_fw_id(w, quantity)
        \/ get_new_launch_id(w)
        \/ \E quantity \in 1..MaxQuantity : add_wf(w, quantity)
        \/ \E f \in DOMAIN fireworks : _replace_fw(w, NewAttempt(f), TRUE)
        \/ _reset(w)

SpecAlloc == InitAlloc /\ [][NextAlloc]_vars

(* ------------------------- claims: the allocator ------------------------ *)

\* the ids of one granted range <<first, quantity>>
GrantedRange(g) == g[1] .. (g[1] + g[2] - 1)
GrantedFwIds == UNION {GrantedRange(fwGrants[i]) : i \in DOMAIN fwGrants}
GrantedLaunchIds == {launchGrants[i] : i \in DOMAIN launchGrants}
\* S is a block of consecutive integers
Contiguous(S) == \A a, b \in S : \A x \in a..b : x \in S

\* C5: whatever the interleaving of the get_new_fw_id(quantity) calls on an
\* initialized counter, every call is granted a range of quantity >= 1 ids that
\* starts at the id it returns, the ranges granted are pairwise disjoint and
\* together one block without gaps, all below the counter; the launch ids
\* returned by get_new_launch_id are pairwise different and one block as well.
C5_GrantedIdsDisjointContiguous ==
    fw_id_assigner # None =>
        /\ \A i \in DOMAIN fwGrants : fwGrants[i][2] >= 1
        /\ \A i, j \in DOMAIN fwGrants :
              i # j => GrantedRange(fwGrants[i]) \cap GrantedRange(fwGrants[j]) = {}
        /\ Contiguous(GrantedFwIds)
        /\ \A x \in GrantedFwIds : x < fw_id_assigner.next_fw_id
        /\ \A i, j \in DOMAIN launchGrants : i # j => launchGrants[i] # launchGrants[j]
        /\ Contiguous(GrantedLaunchIds)
        /\ \A x \in GrantedLaunchIds : x < fw_id_assigner.next_launch_id

\* two workers were granted fw id ranges, one of them of more than one id, and
\* two launch ids were granted
C5_Witness ==
    /\ Len(fwGrants) >= 2
    /\ \E i \in DOMAIN fwGrants : fwGrants[i][2] >= 2
    /\ Len(launchGrants) >= 2
    /\ \E w, v \in Workers : w # v /\ ret[w] = Id(1) /\ ret[v] = Id(2)

\* C6: with no counter record, get_new_fw_id and get_new_launch_id raise
\* ValueError, and the failed call leaves the four collections as they were
\* (in particular it creates no counter record).
C6_AbsentCounterFails ==
    [][fw_id_assigner = None =>
          \A w \in Workers :
             /\ \A quantity \in 1..MaxQuantity :
                   get_new_fw_id(w, quantity) => ret'[w] = ValueError /\ UNCHANGED store
             /\ get_new_launch_id(w) => ret'[w] = ValueError /\ UNCHANGED store]_vars

\* the counter record is absent and both allocators have failed
C6_Witness ==
    /\ fw_id_assigner = None
    /\ \A w \in Workers : ret[w] = ValueError

\* C7: nothing stored survives a reset and the ids restart at 1: every stored
\* firework, launch and workflow node carries an id granted since the last
\* reset, the first fw id and the first launch id granted after it are 1, and
\* until an id is granted the counter stands at 1.
C7_ResetEmptiesAndRestartsAtOne ==
    fw_id_assigner # None =>
        /\ DOMAIN fireworks \subseteq GrantedFwIds
        /\ DOMAIN launches \subseteq GrantedLaunchIds
        /\ \A wf \in workflows : wf.nodes \subseteq GrantedFwIds
        /\ fwGrants # <<>> => fwGrants[1][1] = 1
        /\ launchGrants # <<>> => launchGrants[1] = 1
        /\ fwGrants = <<>> => fw_id_assigner.next_fw_id = 1
        /\ launchGrants = <<>> => fw_id_assigner.next_launch_id = 1

\* a reset has just run after ids had been granted (a worker still holds one):
\* the store is empty and the counter is back at (1, 1)
C7_Witness ==
    /\ fw_id_assigner = [next_fw_id |-> 1, next_launch_id |-> 1]
    /\ fireworks = EmptyColl /\ launches = EmptyColl /\ workflows = {}
    /\ fwGrants = <<>> /\ launchGrants = <<>>
    /\ \E w \in Workers : ret[w] = Id(2)

(* --------------------------- claims: checkout --------------------------- *)

\* worker w made its call with checkout=True and without / with a fw_id
ByQuery(w) == pc[w] # "idle" /\ args[w].checkout /\ args[w].fw_id = NoNumber
ById(w, f) == pc[w] # "idle" /\ args[w].checkout /\ args[w].fw_id = Some(f)
\* the find of worker w returned firework f
Claimed(w, f) == pc[w] # "idle" /\ found[w] # None /\ found[w].fw_id = f
\* the call of worker w has returned firework f / has returned None
Received(w, f) == pc[w] = "done" /\ Claimed(w, f) /\ ret[w] # None /\ ret[w] # ValueError
ReceivedNone(w) == pc[w] = "done" /\ ret[w] = None
\* the fireworks that were READY and matched the query when the workers started
ReadyMatching0(query) ==
    {f \in DOMAIN fireworks0 :
        /\ fireworks0[f].state = "READY"
        /\ (query = AnyQuery \/ fireworks0[f].category = query)}

\* C1: of the workers that call checkout without a fw_id no two are handed the
\* same firework; and when all N workers have made such a call with queries
\* that each matched exactly one and the same READY firework, exactly one of
\* them has received it and every other one has received None.
C1_ExactlyOneCallerReceives ==
    /\ \A w1, w2 \in Workers : \A f \in DOMAIN fireworks :
          w1 # w2 /\ ByQuery(w1) /\ ByQuery(w2) => ~ (Claimed(w1, f) /\ Claimed(w2, f))
    /\ \A f \in DOMAIN fireworks :
          (\A w \in Workers :
              pc[w] = "done" /\ ByQuery(w) /\ ReadyMatching0(args[w].query) = {f})
          => \E w \in Workers :
                Received(w, f) /\ \A v \in Workers \ {w} : ReceivedNone(v)

\* all workers have called with queries (not all the same) that matched one
\* READY firework only; one of them holds it and the others hold None
C1_Witness ==
    \E f \in DOMAIN fireworks :
        /\ \A w \in Workers :
              pc[w] = "done" /\ ByQuery(w) /\ ReadyMatching0(args[w].query) = {f}
        /\ \E w, v \in Workers : args[w].query # args[v].query
        /\ \E w \in Workers : Received(w, f) /\ \A v \in Workers \ {w} : ReceivedNone(v)

\* C2: of two workers that call checkout with the same fw_id, for a firework
\* that was READY, at most one receives the firework.
C2_SameFwIdAtMostOneReceives ==
    \A w1, w2 \in Workers : \A f \in DOMAIN fireworks :
        (w1 # w2 /\ ById(w1, f) /\ ById(w2, f) /\ fireworks0[f].state = "READY")
        => ~ (Received(w1, f) /\ Received(w2, f))

\* C3: a firework that checkout hands out was READY when the find claimed it,
\* with or without a fw_id, and is stored as RESERVED afterwards.
C3_OnlyReadyIsHandedOut ==
    \A w \in Workers : \A f \in DOMAIN fireworks :
        (args[w] # None /\ args[w].checkout /\ Claimed(w, f))
        => found[w].doc.state = "READY" /\ fireworks[f].state = "RESERVED"

\* g has a higher priority than f: a missing priority is the lowest
HigherPriority(g, f) ==
    /\ fireworks[g].priority # NoNumber
    /\ fireworks[f].priority = NoNumber \/ fireworks[g].priority[1] > fireworks[f].priority[1]

\* the READY fireworks matching the query, as stored now
ReadyMatching(query) ==
    {f \in DOMAIN fireworks :
        /\ fireworks[f].state = "READY"
        /\ (query = AnyQuery \/ fireworks[f].category = query)}

\* C4: the firework that a checkout without fw_id claims is, at the instant of
\* the claim, a READY firework matching the query, none of those has a higher
\* priority, and among those of the same priority none was created earlier
\* under FIFO and none later under FILO.
C4_ClaimsByPriorityThenCreation ==
    [][\A w \in Workers :
          (pc[w] = "idle" /\ pc'[w] = "found" /\ args'[w].checkout /\ args'[w].fw_id = NoNumber)
          => LET f == found'[w].fw_id
                 R == ReadyMatching(args'[w].query)
             IN /\ f \in R
                /\ \A g \in R : ~ HigherPriority(g, f)
                /\ \A g \in R :
                      fireworks[g].priority = fireworks[f].priority
                      => /\ SORT_FWS = "FIFO" => fireworks[f].created_on <= fireworks[g].created_on
                         /\ SORT_FWS = "FILO" => fireworks[f].created_on >= fireworks[g].created_on]_vars

\* under FIFO a worker has claimed, by query, the earlier created of the READY
\* fireworks of the highest priority, the one with the larger fw_id
C4_Witness ==
    /\ SORT_FWS = "FIFO"
    /\ \E w \in Workers : \E f, g \in DOMAIN fireworks :
          /\ pc[w] = "found" /\ ByQuery(w) /\ Claimed(w, f)
          /\ f > g
          /\ {f, g} \subseteq ReadyMatching0(args[w].query)
          /\ fireworks0[f].priority = Some(2) /\ fireworks0[g].priority = Some(2)
          /\ fireworks0[f].created_on < fireworks0[g].created_on

(* ----------------------- claims: update and checkin --------------------- *)

\* s is an initial segment of t
IsPrefix(s, t) == Len(s) <= Len(t) /\ \A i \in 1..Len(s) : s[i] = t[i]

\* C8: no step of an update or a checkin, whatever the interleaving of the
\* workers, makes the stored state_history of a launch shorter or changes an
\* entry it held: the old history is an initial segment of the new one.
C8_StateHistoryOnlyGrows ==
    [][\A l \in DOMAIN launches :
          /\ l \in DOMAIN launches'
          /\ IsPrefix(launches[l].state_history, launches'[l].state_history)]_vars

\* C9: the state stored on a launch document is the state of the last entry
\* of its stored state_history.
C9_LaunchStateIsLastEntry ==
    \A l \in DOMAIN launches :
        /\ launches[l].state_history # <<>>
        /\ launches[l].state = launches[l].state_history[Len(launches[l].state_history)].state

\* C10: an update whose firework (the object the call works on) has a state
\* that is not in allowed_states returns None at once, and an update of a
\* firework whose stored state is not in allowed_states returns without
\* writing: in both cases the fireworks and the launches documents are as
\* before and no write of a launch is left to do.
C10_UpdateOutsideAllowedStatesIsNoOp ==
    [][\A w \in Workers : \A a \in UpdateCalls :
          (/\ a.allowed_states # NoStates
           /\ pc[w] = "idle" /\ m_fw[w] # None
           /\ \/ m_fw[w].state \notin a.allowed_states[1]
              \/ fireworks[m_fw[w].fw_id].state \notin a.allowed_states[1]
           /\ _update_fw(w, a))
          => /\ pc'[w] = "idle" /\ UNCHANGED <<fireworks, launches>>
             /\ m_fw[w].state \notin a.allowed_states[1] => ret'[w] = None]_vars

\* a worker whose object is RESERVED or COMPLETED, not in the allowed states
\* ["RUNNING"], has got None from its update
C10_Witness ==
    \E w \in Workers :
        /\ m_fw[w] # None /\ m_fw[w].state # "RUNNING"
        /\ pc[w] = "idle" /\ ret[w] = None

\* C11: an update whose conditional write finds the stored state outside
\* allowed_states (another worker moved it after the caller loaded the
\* firework) returns None.
C11_UpdateReturnsNoneWhenWriteNotApplied ==
    [][\A w \in Workers : \A a \in UpdateCalls :
          (/\ a.allowed_states # NoStates
           /\ pc[w] = "idle" /\ m_fw[w] # None
           /\ fireworks[m_fw[w].fw_id].state \notin a.allowed_states[1]
           /\ _update_fw(w, a))
          => ret'[w] = None]_vars

\* the call a of _update_fw on object fw goes from an inactive state (rank <= 0)
\* to a state of higher rank, and is not turned away by allowed_states
InactiveToActive(fw, a) ==
    /\ a.state # NoState
    /\ STATE_RANKS[a.state] > STATE_RANKS[fw.state]
    /\ STATE_RANKS[fw.state] <= 0
    /\ a.allowed_states # NoStates => fw.state \in a.allowed_states[1]

\* C12 as stated: an update from an inactive state to a state of higher rank
\* appends a newly allocated launch id to the launches of the firework.
C12_UpdateToActiveAppendsNewLaunchId ==
    [][\A w \in Workers : \A a \in UpdateCalls :
          (/\ pc[w] = "idle" /\ m_fw[w] # None
           /\ InactiveToActive(m_fw[w], a)
           /\ _update_fw(w, a))
          => /\ fw_id_assigner'.next_launch_id = fw_id_assigner.next_launch_id + 1
             /\ fireworks'[m_fw[w].fw_id].launches =
                   Append(fireworks[m_fw[w].fw_id].launches, fw_id_assigner.next_launch_id)]_vars

\* C12 as the code has it: an update from an inactive state to a state of
\* higher rank is over in one conditional write of the fireworks document.  It
\* allocates no launch id, leaves the launches list of the firework and every
\* launch document as they are, and returns the object.
C12_UpdateToActiveWritesFireworkOnly ==
    [][\A w \in Workers : \A a \in UpdateCalls :
          (/\ pc[w] = "idle" /\ m_fw[w] # None
           /\ InactiveToActive(m_fw[w], a)
           /\ _update_fw(w, a))
          => /\ UNCHANGED <<fw_id_assigner, launches>>
             /\ fireworks'[m_fw[w].fw_id].launches = fireworks[m_fw[w].fw_id].launches
             /\ pc'[w] = "idle" /\ ret'[w] = TheObject]_vars

\* a worker has taken its RESERVED firework to COMPLETED by update: the
\* firework is stored COMPLETED with the one launch it had, which still
\* stands at RESERVED, and no launch id was drawn
C12_Witness ==
    \E w \in Workers :
        /\ pc[w] = "idle" /\ ret[w] = TheObject
        /\ m_fw[w] # None /\ m_fw[w].launch.state_history = <<Entry("RESERVED"), Entry("COMPLETED")>>
        /\ fireworks[1].state = "COMPLETED" /\ fireworks[1].launches = <<1>>
        /\ launches[1].state_history = <<Entry("RESERVED")>>
        /\ fw_id_assigner.next_launch_id = 2

\* the launch id _checkin_fw of worker w writes to
CheckinLaunchId(w) == fireworks[m_fw[w].fw_id].launches[m_fw[w].launch_idx[1] + 1]

\* worker w is about to check in a launch whose action is too large
OversizeCheckin(w) ==
    /\ pc[w] = "idle" /\ m_fw[w] # None
    /\ m_fw[w].launch_idx # NoNumber
    /\ TooLarge(m_fw[w].launch)

C14_OversizeWithoutGridfsFailsAndWritesNothing ==
    [][\A w \in Workers :
          (/\ gridfs_fallback = None
           /\ OversizeCheckin(w)
           /\ _checkin_fw(w))
          => /\ ret'[w] = DocumentTooLarge
             /\ launches' = launches]_vars

\* a checkin failed with DocumentTooLarge after another one had stored an action
C14_Witness ==
    \E w \in Workers :
        /\ ret[w] = DocumentTooLarge
        /\ launches[1].action # NoAction
        /\ gridfs_fallback = None

\* firework g lists launch_id among its launches
Lists(g, launch_id) ==
    \E i \in 1 .. Len(fireworks[g].launches) : fireworks[g].launches[i] = launch_id

\* C15: a checkin that writes a launch returns as ids to refresh exactly the
\* fireworks whose launches list holds the id of the launch written, the
\* firework checked in among them
C15_CheckinReturnsTheFireworksListingTheLaunch ==
    [][\A w \in Workers :
          (/\ pc[w] = "idle" /\ m_fw[w] # None
           /\ m_fw[w].launch_idx # NoNumber
           /\ _checkin_fw(w)
           /\ ret'[w] # DocumentTooLarge)
          => /\ launches'[CheckinLaunchId(w)] = m_fw'[w].launch
             /\ ret'[w].ids_to_refresh =
                   {g \in DOMAIN fireworks : Lists(g, CheckinLaunchId(w))}
             /\ m_fw[w].fw_id \in ret'[w].ids_to_refresh]_vars

\* a checkin returned the firework checked in together with another one that
\* shares the launch, and left out a firework that does not list it
C15_Witness ==
    \E w \in Workers :
        /\ m_fw[w] # None
        /\ "ids_to_refresh" \in DOMAIN ret[w]
        /\ m_fw[w].fw_id \in ret[w].ids_to_refresh
        /\ ret[w].ids_to_refresh \ {m_fw[w].fw_id} # {}
        /\ DOMAIN fireworks \ ret[w].ids_to_refresh # {}

\* fromisoformat: the time a stored text stands for
fromisoformat(str) == str[1] * 10 + str[2]

\* the launch of firework f is RESERVED, and T is when it entered that state
ReservedAt(f, T) ==
    /\ Len(fireworks[f].launches) > 0
    /\ LET launch == launches[fireworks[f].launches[1]]
       IN  /\ launch.state = "RESERVED"
           /\ \E i \in 1 .. Len(launch.state_history) :
                 /\ launch.state_history[i].state = "RESERVED"
                 /\ fromisoformat(launch.state_history[i].updated_on) = T

\* C16: a firework whose launch entered RESERVED at time T and is RESERVED
\* still is among the result of _find_timeout_fws('RESERVED', expiration_secs)
\* at every time after T + expiration_secs and at no time before it
C16_ReservedLaunchTimesOutAfterExpiration ==
    [][\A expiration_secs \in ExpirationSecs :
          _find_timeout_fws(2, "RESERVED", expiration_secs, NoQuery)
          => \A f \in DOMAIN fireworks : \A T \in 0 .. MaxClock :
                ReservedAt(f, T)
                => /\ now > T + expiration_secs => f \in ret'[2].fw_ids
                   /\ now < T + expiration_secs => f \notin ret'[2].fw_ids]_vars

\* a call found the firework reserved longest and not the one reserved later
C16_Witness ==
    /\ "fw_ids" \in DOMAIN ret[2]
    /\ \E f, g \in DOMAIN fireworks : \E T \in 0 .. MaxClock :
          /\ ReservedAt(f, T) /\ now > T + 1
          /\ f \in ret[2].fw_ids
          /\ \E U \in 0 .. MaxClock : ReservedAt(g, U) /\ U > T
          /\ g \notin ret[2].fw_ids

\* the set of the launch ids of stored firework f
LaunchIdSet(f) == {fireworks[f].launches[i] : i \in 1 .. Len(fireworks[f].launches)}

\* f has run before the checkouts began, g was READY then, and g declares a
\* duplicate finder that verifies true and whose query matches f
DuplicateOfRun(g, f) ==
    /\ f # g
    /\ fireworks0[f].state = "COMPLETED" /\ fireworks0[f].launches # <<>>
    /\ fireworks0[g].state = "READY"
    /\ fireworks0[g].dupefinder # NoDupeFinder
    /\ fireworks0[g].dupefinder.verify \in {"NotImplementedError", "True"}
    /\ fireworks0[g].category = fireworks0[f].category
    /\ fireworks0[g].priority = fireworks0[f].priority
    /\ fireworks0[g].dupefinder = fireworks0[f].dupefinder

\* the checkout of worker w is past duplicate detection for firework g
Detected(g) ==
    /\ fireworks[g].state = "RESERVED"
    /\ \A w \in Workers : pc[w] \in {"found", "unique"} => found[w].fw_id # g

C18_DuplicateCandidateIsStillReturned ==
    [][\A w \in Workers :
          (/\ pc[w] = "unique"
           /\ _steal_launches(m_fw[w]).stolen
           /\ _check_fw_for_uniqueness(w))
          => /\ pc'[w] = "done"
             /\ "fw_id" \in DOMAIN ret'[w]
             /\ ret'[w].fw_id = m_fw[w].fw_id
             /\ ret'[w].state = "RESERVED"]_vars

\* C19: when no operation is under way, the fw_states entry a workflow keeps
\* for each of its fireworks is the state stored for that firework
C19_FwStatesEqualStoredStates ==
    (\A w \in Workers : pc[w] \in {"idle", "done"})
    => \A wf \in workflows : \A f \in wf.nodes : wf.fw_states[f] = fireworks[f].state

\* the workers inside the locked section of the workflow of firework 1
Inside == {w \in Workers : pc[w] = "locked"}

ReplayFailed(w) == pc[w] = "done" /\ ret[w] = Id(args[w].fw_id)

\* C21: when the replay of recover_offline failed and ignore_errors is
\* false, the firework is FIZZLED, and so is its launch, with the action of
\* the failure; it is not RUNNING or OFFLINE-RUNNING
C21_FailedReplayEndsFizzledWithErrorAction ==
    \A w \in Workers :
        (pc[w] = "done" /\ args[w] # None /\ ReplayFailed(w) /\ ~ args[w].ignore_errors)
        => LET lids == fireworks[args[w].fw_id].launches
           IN  /\ fireworks[args[w].fw_id].state = "FIZZLED"
               /\ launches[lids[Len(lids)]].state = "FIZZLED"
               /\ launches[lids[Len(lids)]].action = m_action

\* C22: recover_offline returns None when the replay went through; when the
\* replay failed and ignore_errors is set, the except clause writes nothing
\* to the store and the fw_id is returned
C22_ReturnsNoneOrTheIdWithoutCheckin ==
    [][\A w \in Workers :
          /\ (pc[w] \in {"fwaction", "_update_fw"} /\ pc'[w] = "done") => ret'[w] = None
          /\ (pc[w] = "except" /\ pc'[w] = "done")
             => /\ ret'[w] = Id(args[w].fw_id)
                /\ args[w].ignore_errors => store' = store]_vars

\* a replay failed with ignore_errors set after the firework was made
\* OFFLINE-RUNNING, and the firework is left so
C22_Witness ==
    \E w \in Workers :
        /\ pc[w] = "done" /\ args[w] # None /\ ReplayFailed(w) /\ args[w].ignore_errors
        /\ fireworks0[1].state = "OFFLINE-RESERVED"
        /\ fireworks[1].state = "OFFLINE-RUNNING"

\* C24: in a workflow whose firework f is the parent of f + 1 (A = 1, B = 2),
\* a checkout never hands out a WAITING firework, nor a child before its parent
\* is COMPLETED; the first checkout by query returns A; when the states are
\* propagated after A was checked in COMPLETED, B becomes READY, and with A
\* COMPLETED and B READY the next checkout by query returns B
C24_ChildIsHandedOutOnlyAfterParentCompleted ==
    [][\A w \in Workers :
          /\ (pc[w] # "found" /\ pc'[w] = "found")
             => /\ fireworks[found'[w].fw_id].state # "WAITING"
                /\ found'[w].fw_id > 1 => fireworks[found'[w].fw_id - 1].state = "COMPLETED"
                /\ (args'[w].fw_id = NoNumber /\ fireworks[1].state = "READY") => found'[w].fw_id = 1
          /\ (pc[w] = "found" /\ pc'[w] = "done") => ret'[w].fw_id = found[w].fw_id
          /\ (pc[w] = "refresh" /\ pc'[w] = "idle" /\ fireworks[1].state = "COMPLETED"
                /\ fireworks[2].state = "WAITING")
             => fireworks'[2].state = "READY"
          /\ (pc[w] = "idle" /\ pc'[w] # "idle" /\ args'[w].fw_id = NoNumber
                /\ fireworks[1].state = "COMPLETED" /\ fireworks[2].state = "READY")
             => pc'[w] = "found" /\ found'[w].fw_id = 2]_vars

\* A was checked in COMPLETED, the states were propagated, and a worker was
\* handed B by its next checkout
C24_Witness ==
    \E w \in Workers :
        /\ Holds(w) /\ ret[w].fw_id = 2 /\ ret[w].state = "RESERVED"
        /\ args[w].fw_id = NoNumber
        /\ fireworks[1].state = "COMPLETED" /\ launches[fireworks[1].launches[1]].state = "COMPLETED"
        /\ fireworks[2].state = "RESERVED"

\* the timeout of the running rapidfire has elapsed
TimedOut ==
    /\ locals # None /\ locals.timeout # NoNumber
    /\ now - locals.start_time >= locals.timeout[1]

\* C25: once the timeout of rapidfire has elapsed no further rocket is
\* started, and the loop terminates, whatever nlaunches and max_loops are
C25_NoRocketAfterTheTimeoutAndTheLoopEnds ==
    /\ [][(TimedOut /\ pc[1] # "launch_rocket") => pc'[1] # "launch_rocket"]_vars
    /\ (TimedOut ~> pc[1] = "done")

\* a rapidfire without a limit of launches or loops ended on its timeout
\* after it ran a rocket, with a firework still READY
C25_Witness ==
    /\ pc[1] = "done" /\ TimedOut
    /\ locals.nlaunches = 0 /\ locals.max_loops = -1 /\ locals.timeout[1] > 0
    /\ locals.num_launched > 0
    /\ run_exists(fireworks)

\* C26: an update from an inactive state to a state of higher rank writes
\* nothing to the launches collection: state_history and trackers of every
\* launch document stay as they are and no update of a launch follows; of the
\* fireworks documents only state and updated_on of the one firework change
C26_UpdateToActiveLeavesTheLaunchDocuments ==
    [][\A w \in Workers : \A a \in UpdateCalls :
          (/\ pc[w] = "idle" /\ m_fw[w] # None
           /\ InactiveToActive(m_fw[w], a)
           /\ _update_fw(w, a))
          => /\ DOMAIN launches' = DOMAIN launches
             /\ \A l \in DOMAIN launches :
                   /\ launches'[l].state_history = launches[l].state_history
                   /\ launches'[l].trackers = launches[l].trackers
             /\ pc'[w] # "update_one"
             /\ \A f \in DOMAIN fireworks :
                   IF f = m_fw[w].fw_id
                   THEN [fireworks'[f] EXCEPT !.state = fireworks[f].state,
                                              !.updated_on = fireworks[f].updated_on] = fireworks[f]
                   ELSE fireworks'[f] = fireworks[f]]_vars

\* a worker took the RESERVED firework to COMPLETED by update: the firework
\* is stored COMPLETED, all else in its document is as it was, and the launch
\* document is still the one the reservation wrote
C26_Witness ==
    \E w \in Workers :
        /\ pc[w] = "idle" /\ ret[w] = TheObject /\ m_fw[w] # None
        /\ m_fw[w].state = "COMPLETED"
        /\ fireworks0[1].state = "RESERVED"
        /\ fireworks[1] = [fireworks0[1] EXCEPT !.state = "COMPLETED", !.updated_on = now]
        /\ launches[1] = Launch("RESERVED", <<Entry("RESERVED")>>, NoAction)

\* C27: _find_timeout_fws('RESERVED', ...) reports only fireworks whose
\* launch is in state RESERVED now: a firework that an update or a checkin
\* has taken on to RUNNING or to a terminal state is not reported
C27_TimedOutReportsOnlyLaunchesStillInTheState ==
    [][\A expiration_secs \in ExpirationSecs :
          _find_timeout_fws(2, "RESERVED", expiration_secs, NoQuery)
          => \A f \in ret'[2].fw_ids :
                LET launch == launches[fireworks[f].launches[Len(fireworks[f].launches)]]
                IN  /\ fireworks[f].state = "RESERVED"
                    /\ launch.state_history[Len(launch.state_history)].state = "RESERVED"]_vars

\* no launch id is twice in the list
NoRepeats(seq) == \A i, j \in 1 .. Len(seq) : seq[i] = seq[j] => i = j

\* C28: whatever merges of duplicates have happened, the launches list of a
\* firework holds no launch id twice, and a merge leaves the launches the
\* firework held where they were: it only appends
C28_MergedLaunchesAreUniqueAndKeepTheirPlaces ==
    [][\A f \in DOMAIN fireworks :
          /\ IsPrefix(fireworks[f].launches, fireworks'[f].launches)
          /\ NoRepeats(fireworks'[f].launches)
          /\ \A w \in Workers :
                ("stolen" \in DOMAIN ret'[w] /\ ret'[w] # ret[w]) => NoRepeats(ret'[w].launches)]_vars

\* a firework that held a launch took, in merges, launches of two fireworks
\* that both held a launch it now has once
C28_Witness ==
    \E f, g, h \in DOMAIN fireworks :
        /\ g # f /\ h # f /\ g # h
        /\ Len(fireworks0[f].launches) = 1
        /\ Len(fireworks[f].launches) > Len(fireworks0[f].launches)
        /\ \E l \in 1 .. MaxLaunchId :
              /\ \E i \in DOMAIN fireworks0[g].launches : fireworks0[g].launches[i] = l
              /\ \E i \in DOMAIN fireworks0[h].launches : fireworks0[h].launches[i] = l
              /\ \E i \in DOMAIN fireworks[f].launches : fireworks[f].launches[i] = l
        /\ fireworks0[g].launches # fireworks0[h].launches

\* the fireworks the duplicate finder's query of stored firework f matches
QueryCandidates(f) ==
    {g \in DOMAIN fireworks : dupefinder_query(get_fw_dict_by_id(f, -1), fireworks[g])}

\* C29: when verify answers false nothing is merged; when the duplicate
\* finder does not implement verify, the launches of every firework its query
\* matches are merged; and launches are merged only into a firework that is
\* READY or RESERVED and declares a duplicate finder
C29_MergeOnlyWhenVerifiedOrVerificationIsSkipped ==
    [][/\ \A f \in DOMAIN fireworks :
             fireworks'[f].launches # fireworks[f].launches
             => /\ fireworks[f].state \in {"READY", "RESERVED"}
                /\ fireworks[f].dupefinder # NoDupeFinder
                /\ fireworks[f].dupefinder.verify # "False"
       /\ \A w \in Workers :
             (pc[w] = "unique" /\ pc'[w] # "unique")
             => LET f == m_fw[w].fw_id
                IN  /\ fireworks[f].dupefinder.verify = "False"
                       => fireworks' = fireworks /\ ret'[w] = m_fw[w]
                    /\ fireworks[f].dupefinder.verify = "NotImplementedError"
                       => \A g \in QueryCandidates(f) : LaunchIdSet(g) \subseteq LaunchIdSet(f)'
       /\ \A w \in Workers : \A f \in DOMAIN fireworks :
             (pc[w] = "idle" /\ call_steal_launches(w, f))
             => /\ (fireworks[f].state \notin {"READY", "RESERVED"}
                     \/ fireworks[f].dupefinder = NoDupeFinder
                     \/ fireworks[f].dupefinder.verify = "False")
                   => ~ ret'[w].stolen /\ ret'[w].launches = fireworks[f].launches
                /\ (/\ fireworks[f].state \in {"READY", "RESERVED"}
                    /\ fireworks[f].dupefinder # NoDupeFinder
                    /\ fireworks[f].dupefinder.verify = "NotImplementedError")
                   => \A g \in QueryCandidates(f) :
                         \A i \in DOMAIN fireworks[g].launches :
                            \E j \in DOMAIN ret'[w].launches :
                               ret'[w].launches[j] = fireworks[g].launches[i]]_vars

\* a checkout merged the launch of a firework into a duplicate whose finder
\* does not implement verify, and the firework of another spec kept its own
C29_Witness ==
    \E f, g \in DOMAIN fireworks :
        /\ f # g
        /\ fireworks[f].dupefinder # NoDupeFinder
        /\ fireworks[f].dupefinder.verify = "NotImplementedError"
        /\ fireworks[f].state = "RESERVED"
        /\ fireworks0[f].launches = <<>> /\ fireworks0[g].launches # <<>>
        /\ fireworks[f].launches = fireworks0[g].launches
        /\ fireworks0[3].category # fireworks0[f].category
        /\ fireworks[3].launches # <<>>

\* C30: the launches list of a firework only grows at its end, whatever the
\* interleaving of the workers: no write of _replace_fw drops or moves a launch
\* id the stored list held, and once the workers that each started a new
\* attempt have written, every launch id they drew is in a stored list
C30_ConcurrentReplacementsKeepEveryLaunchId ==
    [][/\ \A f \in DOMAIN fireworks :
             IsPrefix(fireworks[f].launches, fireworks'[f].launches)
       /\ (\A w \in Workers : pc'[w] = "idle")
          => \A i \in DOMAIN launchGrants' :
                \E f \in DOMAIN fireworks' :
                   \E j \in DOMAIN fireworks'[f].launches :
                      fireworks'[f].launches[j] = launchGrants'[i]]_vars

\* C31: when _replace_fws(fw_ids, fws, upsert) has returned, every firework
\* of fws has a stored record, one under its fw_id, with upsert False as with
\* upsert True
C31_EveryReplacedFireworkIsStored ==
    [][\A w \in Workers : \A fw_ids, S \in SUBSET (1 .. 3) :
       \A state \in {"READY", "WAITING", "DEFUSED"} : \A upsert \in BOOLEAN :
          _replace_fws(w, fw_ids, EditedFws(S, state), upsert)
          => \A f \in S : f \in DOMAIN fireworks' /\ fireworks'[f].state = state]_vars

\* worker w acquires the lock in this step
Acquires(w) == pc[w] # "locked" /\ pc'[w] = "locked"

\* worker h is inside the locked section and its _update_wf has returned
Wrote(h) == pc[h] = "locked" /\ ret[h] = None

C33_EveryStateChangeSetsUpdatedOn ==
    [][\A f \in DOMAIN fireworks \cap DOMAIN fireworks' :
          fireworks'[f].state # fireworks[f].state => fireworks'[f].updated_on = now]_vars

\* C34: update_spec changes the spec only of a firework that is READY,
\* WAITING, FIZZLED, DEFUSED or PAUSED at the instant of the write, it leaves
\* the spec of a RESERVED, RUNNING or COMPLETED firework as it is, and it
\* changes no firework's state or launches, however checkouts interleave
C34_UpdateSpecWritesOnlyTheSpecOfAllowedStates ==
    [][\A w \in Workers : pc[w] = "update_many" /\ args'[w] # args[w]
          => \A f \in DOMAIN fireworks :
                /\ fireworks'[f].state = fireworks[f].state
                /\ fireworks'[f].launches = fireworks[f].launches
                /\ fireworks[f].state \in {"RESERVED", "RUNNING", "COMPLETED"}
                   => fireworks'[f] = fireworks[f]
                /\ fireworks'[f] # fireworks[f]
                   => /\ fireworks[f].state \in {"READY", "WAITING", "FIZZLED", "DEFUSED", "PAUSED"}
                      /\ f \in args[w].fw_ids
                      /\ fireworks'[f] = [fireworks[f] EXCEPT
                                             !.category = args[w].spec_document.category]]_vars

\* an update_spec of two fireworks has returned: it changed the spec of the
\* one that was still READY and left the one a checkout had reserved meanwhile
C34_Witness ==
    \E w \in Workers : \E f, g \in DOMAIN fireworks :
        /\ pc[w] = "done" /\ "fw_ids" \in DOMAIN args[w] /\ {f, g} \subseteq args[w].fw_ids
        /\ fireworks0[f].state = "READY" /\ fireworks0[g].state = "READY"
        /\ fireworks0[f].category # args[w].spec_document.category
        /\ fireworks0[g].category # args[w].spec_document.category
        /\ fireworks[f].state = "RESERVED" /\ fireworks[f].category = fireworks0[f].category
        /\ fireworks[g].state = "READY"
        /\ fireworks[g].category = args[w].spec_document.category

\* the fireworks that rockets of the rapidfire ran: READY at the start, and
\* run to COMPLETED or FIZZLED
RocketsRun ==
    {f \in DOMAIN fireworks : fireworks0[f].state = "READY"
                              /\ fireworks[f].state \in {"COMPLETED", "FIZZLED"}}

\* C35: with nlaunches = n > 0 rapidfire never runs more than n rockets, a
\* rocket that did not run is not counted, and when it returns for a reason
\* other than the timeout or max_loops exactly n rockets have run
C35_AtMostNLaunchesAndExactlyNAtTheBreak ==
    (locals # None /\ locals.nlaunches > 0)
    => /\ Cardinality(RocketsRun) <= locals.nlaunches
       /\ locals.num_launched = Cardinality(RocketsRun)
       /\ (pc[1] = "done" /\ locals.num_loops # locals.max_loops /\ time_ok)
          => Cardinality(RocketsRun) = locals.nlaunches

\* a rapidfire with nlaunches 1 has returned after one rocket, before its
\* timeout and its max_loops, though a firework is still READY
C35_Witness ==
    /\ locals # None /\ locals.nlaunches = 1
    /\ pc[1] = "done" /\ locals.num_loops # locals.max_loops /\ time_ok
    /\ Cardinality(RocketsRun) = 1
    /\ run_exists(fireworks)

\* the fireworks of a workflow that a worker is deleting
BeingDeleted ==
    UNION {IF pc[w] \in {"delete_launches", "delete_fireworks"} THEN args[w].fw_ids ELSE {} :
              w \in Workers}

\* C36: however the deletion of a workflow interleaves with checkouts and
\* their merges of duplicates, every launch id in the launches list of a
\* firework outside the deleted workflow is the id of a stored launch
C36_SurvivingFireworksReferToStoredLaunches ==
    \A f \in DOMAIN fireworks \ BeingDeleted :
        LaunchIdsOf(fireworks[f]) \subseteq DOMAIN launches

\* worker w claims a firework in this step: find_one_and_update matched
Claims(w) ==
    /\ pc[w] \in {"idle", "loop"} /\ pc'[w] = "found"
    /\ args'[w].checkout

\* C37: a call of _get_a_fw_to_run ends, with a firework or None, by query,
\* by fw_id and when it only looks; on its way it claims a READY firework at
\* most once: a claim by query takes a READY firework and makes it RESERVED,
\* a firework claimed again in a later pass (by fw_id) is RESERVED by then,
\* and nothing makes a firework READY again
C37_TheLoopOfACheckoutEnds ==
    /\ [][/\ \A w \in Workers : Claims(w)
                => LET f == found'[w].fw_id
                   IN  /\ args'[w].fw_id = NoNumber => fireworks[f].state = "READY"
                       /\ fireworks'[f].state = "RESERVED"
                       /\ (pc[w] = "loop" /\ f = found[w].fw_id)
                          => fireworks[f].state = "RESERVED"
          /\ \A f \in DOMAIN fireworks :
                fireworks[f].state # "READY" => fireworks'[f].state # "READY"]_vars
    /\ \A w \in {1, 2} : (pc[w] \in {"found", "unique", "loop"}) ~> (pc[w] = "done")

\* a call by fw_id has returned the firework after a second pass through the
\* loop: the first pass merged the launches of a duplicate
C37_Witness ==
    /\ pc[1] = "done" /\ args[1] # None /\ args[1].fw_id # NoNumber
    /\ "fw_id" \in DOMAIN ret[1] /\ ret[1].fw_id = args[1].fw_id[1]
    /\ fireworks[ret[1].fw_id].launches # fireworks0[ret[1].fw_id].launches

C39_ReplayLeavesACompletedFireworkCompleted ==
    [][\A w \in Workers :
          (/\ pc[w] \in {"started_on", "checkpoint", "fwaction", "_update_fw"}
           /\ pc'[w] # "except"
           /\ args[w].offline_data.state = "COMPLETED"
           /\ fireworks[args[w].fw_id].state = "COMPLETED")
          => fireworks'[args[w].fw_id].state = "COMPLETED"]_vars

\* a running rapidfire with nlaunches=0, no timeout and max_loops=-1
Unlimited ==
    /\ locals # None
    /\ locals.nlaunches = 0 /\ locals.max_loops = -1 /\ locals.timeout = NoNumber

\* no firework can run now or in the future: none is READY, none is WAITING
NothingToRun == \A f \in DOMAIN fireworks : fireworks[f].state \notin {"READY", "WAITING"}

====
